---- MODULE Spec2Model ----
(***************************************************************************)
(* Widget SDK runtime (KoruWidget, and its predecessor AppManagerWidget):  *)
(* construction from the script element, the authorization / cache /       *)
(* retry flow, and the start / stop / reload lifecycle with the            *)
(* host-supplied hooks.                                                    *)
(*                                                                         *)
(* Time is the wall clock Date.now() in milliseconds; it advances in steps *)
(* of TickMs.  Every await of the source is a point where a call is        *)
(* suspended: the position of each call is the pc of its task.             *)
(***************************************************************************)
EXTENDS Naturals, Integers, Sequences, FiniteSets, TLC

-----------------------------------------------------------------------------
(* Bounds of the model *)

\* the clock runs from 0 to MaxTicks * TickMs
MaxTicks == 3
\* options.retryAttempts is drawn from 1..MaxRetry (a positive retry budget)
MaxRetry == 3

-----------------------------------------------------------------------------
(* Values *)

\* age = (Date.now() - timestamp) / 1000
MsPerSecond == 1000
TickMs == MsPerSecond \div 2
Times == {k * TickMs : k \in 0..MaxTicks}

\* null, where an object is expected
Null == [kind |-> "null"]
\* an unpopulated global slot
Undefined == "undefined"
\* an attribute the script element does not carry: getAttribute gives null
Missing == "missing"
EmptyConfig == "{}"
\* the argument list of a hook that takes none
NoArg == "-"

\* config maps the authorization service can send
Configs == {"c1", "c2"}
\* values of window.__KORU_PREVIEW_CONFIG__ when it is populated
PreviewConfigs == {"p1"}

\* the AuthResponse bodies of the authorization service
ServerResponses ==
    { [authorized |-> TRUE, config |-> "c1", token |-> "tok"],
      [authorized |-> TRUE, config |-> "c2", token |-> "tok"],
      [authorized |-> FALSE, config |-> "c1", token |-> "tok"] }

\* what one attempt of the retry loop can meet
\*   ok       : 2xx and a body that parses
\*   status   : non-2xx response
\*   transport: fetch rejects
\*   parse    : 2xx and response.json() rejects
FailureKinds == {"status", "transport", "parse"}

\* the instances and the calls in flight
Insts == {"A", "B"}
Tasks == {"t1", "t2"}

\* option values a widget can be constructed with (seconds, milliseconds)
CacheDurations == {1}
RetryDelays == {TickMs}

-----------------------------------------------------------------------------
(* JavaScript truthiness of an attribute value: a string, or null when the *)
(* attribute is missing                                                    *)
Truthy(s) == s # Missing /\ s # ""

(* script.getAttribute(name) || '' *)
AttrOrEmpty(a) == IF Truthy(a) THEN a ELSE ""

(* The constructor: options are the defaults overridden by the caller's;   *)
(* the three ids come from the current script element.  The result is the  *)
(* new instance, or thrown = TRUE and no instance.                         *)
NoWidget ==
    [ exists |-> FALSE, websiteId |-> "", appId |-> "", koruUrl |-> "",
      options |-> [cache |-> TRUE, cacheDuration |-> 1, retryAttempts |-> 0,
                   retryDelay |-> TickMs, analytics |-> FALSE],
      hasConfigUpdate |-> FALSE,
      config |-> EmptyConfig, authData |-> Null, isInitialized |-> FALSE ]

\* (a check that forgets the base URL)
RequiredAttrsPresent_NoUrl(websiteId, appId, koruUrl) ==
    Truthy(websiteId) /\ Truthy(appId)
RequiredAttrsPresent(websiteId, appId, koruUrl) ==
    Truthy(websiteId) /\ Truthy(appId) /\ Truthy(koruUrl)

constructor(script, opts, hasCU) ==
    IF script = Null
      THEN [thrown |-> TRUE, widget |-> NoWidget]
      ELSE LET websiteId == AttrOrEmpty(script.websiteId)
               appId     == AttrOrEmpty(script.appId)
               koruUrl   == AttrOrEmpty(script.url)
           IN  IF ~RequiredAttrsPresent(websiteId, appId, koruUrl)
                 THEN [thrown |-> TRUE, widget |-> NoWidget]
                 ELSE [thrown |-> FALSE,
                       widget |-> [ exists |-> TRUE,
                                    websiteId |-> websiteId,
                                    appId |-> appId,
                                    koruUrl |-> koruUrl,
                                    options |-> opts,
                                    hasConfigUpdate |-> hasCU,
                                    config |-> EmptyConfig,
                                    authData |-> Null,
                                    isInitialized |-> FALSE ]]

\* the script elements a page can hold: each attribute missing, empty,
\* whitespace or an id
AttrValues(id) == {Missing, "", " ", id}
Scripts ==
    {Null} \cup [websiteId : AttrValues("w"), appId : AttrValues("a"),
                 url : AttrValues("u")]

-----------------------------------------------------------------------------
(* The persisted cache: localStorage, a string-keyed store shared by the   *)
(* page.  An item is the JSON text saveToCache wrote, or any other text.   *)

\* ids the widgets of the lifecycle specifications are constructed with
WebsiteIds == {"w", "w_a"}
AppIds == {"a", "a_a"}

\* `koru_widget_${websiteId}_${appId}` (AppManagerWidget differs in the
\* prefix only)
getCacheKeyOf(websiteId, appId) == "koru_widget_" \o websiteId \o "_" \o appId
getCacheKey(w) == getCacheKeyOf(w.websiteId, w.appId)

CacheKeys == {getCacheKeyOf(wid, aid) : wid \in WebsiteIds, aid \in AppIds}

NoItem == [kind |-> "none"]
Garbage == [kind |-> "garbage"]

\* JSON.stringify({data, timestamp})
JSONstringify(rec) ==
    [kind |-> "json", data |-> rec.data, timestamp |-> rec.timestamp]
\* JSON.parse(text): the record, or thrown
JSONparse(item) ==
    IF item.kind = "json"
      THEN [thrown |-> FALSE,
            value |-> [data |-> item.data, timestamp |-> item.timestamp]]
      ELSE [thrown |-> TRUE, value |-> Null]

\* (an entry that expires when its age reaches cacheDuration)
IsExpired_AtLimit(nowv, timestamp, cacheDuration) ==
    nowv - timestamp >= cacheDuration * MsPerSecond
\* (the age taken in milliseconds and compared with seconds)
IsExpired_Millis(nowv, timestamp, cacheDuration) ==
    nowv - timestamp > cacheDuration
\* age > cacheDuration, with age = (now - timestamp) / 1000 a real number
IsExpired(nowv, timestamp, cacheDuration) ==
    nowv - timestamp > cacheDuration * MsPerSecond

\* the localStorage methods that throw when called (storage disabled or
\* denied, quota exceeded)
VARIABLE storage

StorageMethods == {"getItem", "setItem", "removeItem"}

\* (a removal that leaves the item)
clearCache_Keeps(w, st) == st
\* try { localStorage.removeItem(key) } catch { }
clearCache(w, st) ==
    IF "removeItem" \in storage
      THEN st
      ELSE [st EXCEPT ![getCacheKey(w)] = NoItem]

\* (a write that leaves an entry that is already there)
saveToCache_FirstWins(w, st, data, nowv) ==
    IF st[getCacheKey(w)] = NoItem
      THEN [st EXCEPT ![getCacheKey(w)] =
                JSONstringify([data |-> data, timestamp |-> nowv])]
      ELSE st
\* try { localStorage.setItem(key, JSON.stringify({data, timestamp:
\* Date.now()})) } catch (error) { this.log(...) }
saveToCache(w, st, data, nowv) ==
    IF "setItem" \in storage
      THEN st
      ELSE [st EXCEPT ![getCacheKey(w)] =
                JSONstringify([data |-> data, timestamp |-> nowv])]

\* the cached AuthResponse or Null, and the store it leaves
getFromCache(w, st, nowv) ==
    LET cached == st[getCacheKey(w)]
    IN  IF "getItem" \in storage
          THEN [value |-> Null, store |-> st, ops |-> <<"getItem">>]
        ELSE IF cached.kind = "none"
          THEN [value |-> Null, store |-> st, ops |-> <<"getItem">>]
          ELSE LET parsed == JSONparse(cached)
               IN  IF parsed.thrown
                     THEN [value |-> Null, store |-> st, ops |-> <<"getItem">>]
                     ELSE IF IsExpired(nowv, parsed.value.timestamp,
                                       w.options.cacheDuration)
                            THEN [value |-> Null, store |-> clearCache(w, st),
                                  ops |-> <<"getItem", "removeItem">>]
                            ELSE [value |-> parsed.value.data, store |-> st,
                                  ops |-> <<"getItem">>]

-----------------------------------------------------------------------------
(* State *)

VARIABLES
    currentScript, \* document.currentScript: Null, or the element's attributes
    constructed,   \* how the last constructor call ended: none / created / thrown
    now,         \* Date.now(), milliseconds
    readyState,  \* document.readyState
    preview,     \* window.__KORU_PREVIEW_CONFIG__, or Undefined
    store,       \* localStorage: cache key -> item
    widgets,     \* instance -> its fields
    tasks,       \* call slot -> the call's position and locals
    lastCached   \* instance -> what its last network authorization wrote
                 \* to the cache and when, Null once reload() cleared it
                 \* (history)

vars == <<currentScript, constructed, now, readyState, preview, store, widgets,
          tasks, lastCached, storage>>

\* a call slot before its first call
IdleTask ==
    [ op |-> "none", inst |-> "A", pc |-> "idle",
      auth |-> "none",      \* authorize(): none / running / returned / threw
      res |-> Null,         \* the AuthResponse authorize() returned
      err |-> Null,         \* the error in flight (authorize's or a hook's)
      attempt |-> 0,        \* loop variable of the retry loop
      lastError |-> Null,
      reqs |-> 0,           \* authorization requests issued by this authorize()
      sleeps |-> 0,         \* retry delays started by this authorize()
      t0 |-> 0,             \* Date.now() when authorize() was entered
      wake |-> 0,           \* when the pending setTimeout is due
      cacheOps |-> <<>>,    \* localStorage calls made by this authorize()
      prev |-> Null,        \* lastCached[inst] when start() entered authorize(),
                            \* or when reload() was called
      hooks |-> <<>>,       \* what this call did to the hooks and the fields
      reported |-> 0,       \* console.error calls of this call
      events |-> <<>>,      \* analytics events of this call
      posts |-> <<>>,       \* the analytics request of each event: pending / ok /
                            \* failed
      outcome |-> "none" ]  \* the call's promise: pending / resolved / rejected

InFlight(tk) == tk.pc \notin {"idle", "done"}

-----------------------------------------------------------------------------
(* track(eventName): posts the event and does not await the request,     *)
(* unless analytics is off                                                *)
track(tk, w, eventName) ==
    IF ~w.options.analytics
      THEN tk
      ELSE [tk EXCEPT !.events = Append(@, eventName),
                      !.posts = Append(@, "pending")]

\* (an error that goes to telemetry instead of the console when analytics
\* is on)
handleError_Silent(tk, w) ==
    IF w.options.analytics
      THEN track(tk, w, "widget_error")
      ELSE [tk EXCEPT !.reported = @ + 1]
(* handleError(message, error): console.error, and a widget_error event if *)
(* analytics is on                                                         *)
handleError(tk, w) ==
    LET logged == [tk EXCEPT !.reported = @ + 1]
    IN  IF w.options.analytics THEN track(logged, w, "widget_error") ELSE logged

(* the call's async function returns: its promise resolves *)
Resolve(tk) == [tk EXCEPT !.pc = "done", !.outcome = "resolved"]

\* (a catch clause that throws the error on)
Rethrow(tk, w, error) ==
    [handleError(tk, w) EXCEPT !.pc = "done", !.outcome = "rejected", !.err = Null]
(* the catch clause of start / stop / reload: handleError, then the        *)
(* function ends normally                                                  *)
Catch(tk, w, error) ==
    Resolve([handleError(tk, w) EXCEPT !.err = Null])

-----------------------------------------------------------------------------
(* authorize() *)

\* the result synthesized from the preview override
PreviewResult(w, pv) ==
    [authorized |-> TRUE, config |-> pv, token |-> "preview-mode"]

\* head of the retry loop with tk.attempt the loop variable: issue the
\* request of this attempt, or leave the loop and throw
LoopHead(tk, w) ==
    IF tk.attempt <= w.options.retryAttempts
      THEN [tk EXCEPT !.pc = "fetch", !.reqs = @ + 1]
      ELSE [tk EXCEPT !.pc = "authReturn", !.auth = "threw",
                      !.lastError = Null,
                      !.err = IF tk.lastError # Null
                                THEN tk.lastError
                                ELSE [kind |-> "generic", attempt |-> 0]]

\* (the flow without the preview check, as in AppManagerWidget)
UsePreview_Never(pv) == FALSE
\* whether the preview override is used (AppManagerWidget is the same flow
\* with the slot never populated)
UsePreview(pv) == pv # Undefined

\* (an authorize() that reads the cache whether or not caching is enabled)
authorizeEnter_AlwaysReads(tk0, w, st, nowv, pv) ==
    LET tk == [tk0 EXCEPT !.auth = "running", !.t0 = nowv]
    IN  IF UsePreview(pv)
          THEN [task |-> [tk EXCEPT !.auth = "returned", !.pc = "authReturn",
                                    !.res = PreviewResult(w, pv)],
                store |-> st]
          ELSE LET c == getFromCache(w, st, nowv)
               IN  IF c.value # Null
                     THEN [task |-> [tk EXCEPT !.auth = "returned",
                                               !.pc = "authReturn",
                                               !.res = c.value,
                                               !.cacheOps = c.ops],
                           store |-> c.store]
                     ELSE [task |-> LoopHead([tk EXCEPT !.cacheOps = c.ops,
                                                        !.attempt = 1,
                                                        !.lastError = Null], w),
                           store |-> c.store]
\* authorize() from its entry to its first await or its return
authorizeEnter(tk0, w, st, nowv, pv) ==
    LET tk == [tk0 EXCEPT !.auth = "running", !.t0 = nowv]
    IN  IF UsePreview(pv)
          THEN [task |-> [tk EXCEPT !.auth = "returned", !.pc = "authReturn",
                                    !.res = PreviewResult(w, pv)],
                store |-> st]
          ELSE LET c == IF w.options.cache
                          THEN getFromCache(w, st, nowv)
                          ELSE [value |-> Null, store |-> st, ops |-> <<>>]
               IN  IF c.value # Null
                     THEN [task |-> [tk EXCEPT !.auth = "returned",
                                               !.pc = "authReturn",
                                               !.res = c.value,
                                               !.cacheOps = c.ops],
                           store |-> c.store]
                     ELSE [task |-> LoopHead([tk EXCEPT !.cacheOps = c.ops,
                                                        !.attempt = 1,
                                                        !.lastError = Null], w),
                           store |-> c.store]

\* (a retry at once, with no delay)
MoreAttempts_NoDelay(attempt, retryAttempts) == FALSE
\* (a delay after the last attempt too)
MoreAttempts_Inclusive(attempt, retryAttempts) == attempt <= retryAttempts
\* whether a delay follows the failed attempt
MoreAttempts(attempt, retryAttempts) == attempt < retryAttempts

\* (a body that does not parse ends the loop at once)
attemptFailed_ParseFatal(tk, w, kind, nowv) ==
    LET failed == [tk EXCEPT !.lastError = [kind |-> kind, attempt |-> tk.attempt]]
    IN  IF kind # "parse" /\ MoreAttempts(tk.attempt, w.options.retryAttempts)
          THEN [failed EXCEPT !.pc = "sleep", !.sleeps = @ + 1,
                              !.wake = nowv + w.options.retryDelay]
          ELSE LoopHead([failed EXCEPT !.attempt = w.options.retryAttempts + 1], w)
\* (a catch clause that keeps the first error it saw)
attemptFailed_KeepsFirst(tk, w, kind, nowv) ==
    LET failed == IF tk.lastError = Null
                    THEN [tk EXCEPT !.lastError =
                              [kind |-> kind, attempt |-> tk.attempt]]
                    ELSE tk
    IN  IF MoreAttempts(tk.attempt, w.options.retryAttempts)
          THEN [failed EXCEPT !.pc = "sleep", !.sleeps = @ + 1,
                              !.wake = nowv + w.options.retryDelay]
          ELSE LoopHead([failed EXCEPT !.attempt = @ + 1], w)
\* the catch clause of the loop body
attemptFailed(tk, w, kind, nowv) ==
    LET failed == [tk EXCEPT !.lastError = [kind |-> kind, attempt |-> tk.attempt]]
    IN  IF MoreAttempts(tk.attempt, w.options.retryAttempts)
          THEN [failed EXCEPT !.pc = "sleep", !.sleeps = @ + 1,
                              !.wake = nowv + w.options.retryDelay]
          ELSE LoopHead([failed EXCEPT !.attempt = @ + 1], w)

-----------------------------------------------------------------------------
(* The public calls.  A call runs to its first await in one step.          *)

Ops == {"start", "stop", "reload"}

\* a fresh call of op on instance i
NewTask(op, i) ==
    [IdleTask EXCEPT !.op = op, !.inst = i, !.outcome = "pending"]

\* stop(): onDestroy() is called at once
stopEnter(tk) ==
    [tk EXCEPT !.pc = "onDestroy", !.hooks = Append(@, <<"call", "onDestroy", NoArg>>)]

\* (a waitForDOM() that never suspends)
startEnter_NoWait(tk, rs) ==
    [tk EXCEPT !.pc = "domReady"]
\* start(): await waitForDOM() suspends until DOMContentLoaded when the
\* document is loading
startEnter(tk, rs) ==
    [tk EXCEPT !.pc = IF rs = "loading" THEN "waitDOM" ELSE "domReady"]

\* (a reload() that clears the cache only when caching is enabled and no
\* preview override is present)
Call_ClearsIfCaching(t, i, op) ==
    /\ widgets[i].exists
    /\ ~InFlight(tasks[t])
    /\ op \in Ops
    /\ UNCHANGED <<storage, currentScript, constructed, now, readyState, preview, widgets>>
    /\ CASE op = "start" ->
              /\ tasks' = [tasks EXCEPT ![t] = startEnter(NewTask(op, i), readyState)]
              /\ UNCHANGED <<store, lastCached>>
         [] op = "stop" ->
              /\ tasks' = [tasks EXCEPT ![t] = stopEnter(NewTask(op, i))]
              /\ UNCHANGED <<store, lastCached>>
         [] op = "reload" ->
              LET cleared == IF widgets[i].options.cache /\ ~UsePreview(preview)
                               THEN clearCache(widgets[i], store)
                               ELSE store
                  r == authorizeEnter([NewTask(op, i) EXCEPT !.prev = lastCached[i]],
                                      widgets[i], cleared, now, preview)
              IN  /\ tasks' = [tasks EXCEPT ![t] = r.task]
                  /\ store' = r.store
                  /\ lastCached' = [lastCached EXCEPT ![i] = Null]
\* start(), stop() or reload() is called on instance i: the call runs to
\* its first await
Call(t, i, op) ==
    /\ widgets[i].exists
    /\ ~InFlight(tasks[t])
    /\ op \in Ops
    /\ UNCHANGED <<storage, currentScript, constructed, now, readyState, preview, widgets>>
    /\ CASE op = "start" ->
              /\ tasks' = [tasks EXCEPT ![t] = startEnter(NewTask(op, i), readyState)]
              /\ UNCHANGED <<store, lastCached>>
         [] op = "stop" ->
              /\ tasks' = [tasks EXCEPT ![t] = stopEnter(NewTask(op, i))]
              /\ UNCHANGED <<store, lastCached>>
         [] op = "reload" ->
              LET r == authorizeEnter([NewTask(op, i) EXCEPT !.prev = lastCached[i]],
                                      widgets[i], clearCache(widgets[i], store),
                                      now, preview)
              IN  /\ tasks' = [tasks EXCEPT ![t] = r.task]
                  /\ store' = r.store
                  /\ lastCached' = IF "removeItem" \in storage
                                     THEN lastCached
                                     ELSE [lastCached EXCEPT ![i] = Null]

\* the analytics request of the k-th event of call t settles: a rejection
\* goes to the .catch of track(), which logs
TelemetrySettle(t, k, outcome) ==
    /\ k \in 1..Len(tasks[t].posts)
    /\ tasks[t].posts[k] = "pending"
    /\ outcome \in {"ok", "failed"}
    /\ tasks' = [tasks EXCEPT ![t].posts[k] = outcome]
    /\ UNCHANGED <<storage, currentScript, constructed, now, readyState, preview, store,
                 widgets, lastCached>>
\* the ready event: the document leaves "loading", the listeners run
DOMContentLoaded ==
    /\ readyState = "loading"
    /\ readyState' = "interactive"
    /\ tasks' = [t \in Tasks |->
                    IF tasks[t].pc = "waitDOM"
                      THEN [tasks[t] EXCEPT !.pc = "domReady"]
                      ELSE tasks[t]]
    /\ UNCHANGED <<storage, currentScript, constructed, now, preview, store, widgets, lastCached>>

\* start() resumes after await waitForDOM(): authorize() is entered
StartAuthorize(t) ==
    LET tk == tasks[t]
        r  == authorizeEnter([tk EXCEPT !.prev = lastCached[tk.inst]],
                             widgets[tk.inst], store, now, preview)
    IN  /\ tk.pc = "domReady"
        /\ tasks' = [tasks EXCEPT ![t] = r.task]
        /\ store' = r.store
        /\ UNCHANGED <<storage, currentScript, constructed, now, readyState, preview, widgets, lastCached>>

\* (an attempt that fails when the cache write throws)
FetchOk_WriteThrows(t, data) ==
    LET tk == tasks[t]
        w  == widgets[tk.inst]
    IN  /\ tk.pc = "fetch"
        /\ data \in ServerResponses
        /\ store' = IF w.options.cache THEN saveToCache(w, store, data, now)
                                       ELSE store
        /\ tasks' = [tasks EXCEPT ![t] =
                        IF w.options.cache /\ "setItem" \in storage
                          THEN attemptFailed(
                                   [tk EXCEPT !.cacheOps = Append(@, "setItem")],
                                   w, "storage", now)
                          ELSE [tk EXCEPT !.pc = "authReturn", !.auth = "returned",
                                          !.res = data, !.lastError = Null,
                                          !.cacheOps = IF w.options.cache
                                                         THEN Append(@, "setItem")
                                                         ELSE @]]
        /\ lastCached' = IF w.options.cache /\ "setItem" \notin storage
                           THEN [lastCached EXCEPT ![tk.inst] =
                                    [data |-> data, time |-> now]]
                           ELSE lastCached
        /\ UNCHANGED <<storage, currentScript, constructed, now, readyState, preview, widgets>>
\* (an attempt that persists its result only when it is authorized)
FetchOk_OnlyAuthorized(t, data) ==
    LET tk == tasks[t]
        w  == widgets[tk.inst]
    IN  /\ tk.pc = "fetch"
        /\ data \in ServerResponses
        /\ store' = IF w.options.cache /\ data.authorized
                      THEN saveToCache(w, store, data, now)
                      ELSE store
        /\ tasks' = [tasks EXCEPT ![t] =
                        [tk EXCEPT !.pc = "authReturn", !.auth = "returned",
                                   !.res = data, !.lastError = Null,
                                   !.cacheOps = IF w.options.cache /\ data.authorized
                                                  THEN Append(@, "setItem")
                                                  ELSE @]]
        /\ lastCached' = IF w.options.cache /\ "setItem" \notin storage
                           THEN [lastCached EXCEPT ![tk.inst] =
                                    [data |-> data, time |-> now]]
                           ELSE lastCached
        /\ UNCHANGED <<storage, currentScript, constructed, now, readyState, preview, widgets>>
\* the request of the current attempt succeeds with body data
FetchOk(t, data) ==
    LET tk == tasks[t]
        w  == widgets[tk.inst]
    IN  /\ tk.pc = "fetch"
        /\ data \in ServerResponses
        /\ store' = IF w.options.cache THEN saveToCache(w, store, data, now)
                                       ELSE store
        /\ tasks' = [tasks EXCEPT ![t] =
                        [tk EXCEPT !.pc = "authReturn", !.auth = "returned",
                                   !.res = data, !.lastError = Null,
                                   !.cacheOps = IF w.options.cache
                                                  THEN Append(@, "setItem")
                                                  ELSE @]]
        /\ lastCached' = IF w.options.cache /\ "setItem" \notin storage
                           THEN [lastCached EXCEPT ![tk.inst] =
                                    [data |-> data, time |-> now]]
                           ELSE lastCached
        /\ UNCHANGED <<storage, currentScript, constructed, now, readyState, preview, widgets>>

\* the request of the current attempt fails
FetchFail(t, kind) ==
    LET tk == tasks[t]
    IN  /\ tk.pc = "fetch"
        /\ kind \in FailureKinds
        /\ tasks' = [tasks EXCEPT ![t] = attemptFailed(tk, widgets[tk.inst], kind, now)]
        /\ UNCHANGED <<storage, currentScript, constructed, now, readyState, preview, store, widgets, lastCached>>

\* (a timer whose promise is never resolved)
SleepDone_Never(t) == FALSE /\ UNCHANGED vars
\* the retry delay has elapsed: next iteration of the loop
SleepDone(t) ==
    LET tk == tasks[t]
    IN  /\ tk.pc = "sleep"
        /\ now >= tk.wake
        /\ tasks' = [tasks EXCEPT ![t] =
                        LoopHead([tk EXCEPT !.attempt = @ + 1, !.wake = 0],
                                 widgets[tk.inst])]
        /\ UNCHANGED <<storage, currentScript, constructed, now, readyState, preview, store, widgets, lastCached>>

Tick ==
    /\ now + TickMs <= MaxTicks * TickMs
    /\ now' = now + TickMs
    /\ UNCHANGED <<storage, currentScript, constructed, readyState, preview, store, widgets,
                 tasks, lastCached>>

-----------------------------------------------------------------------------
(* What start() and reload() do when authorize() has settled, and what the *)
(* calls do when the awaited hook has settled.  Each gives the task and    *)
(* the instance as the step leaves them.                                   *)

\* authorize() has returned or thrown: its locals are gone
leaveAuthorize(tk) ==
    [tk EXCEPT !.attempt = 0, !.lastError = Null, !.reqs = 0, !.sleeps = 0,
               !.t0 = 0, !.wake = 0, !.cacheOps = <<>>, !.prev = Null]

HookCall(tk, hook, arg) ==
    [tk EXCEPT !.pc = hook, !.hooks = Append(@, <<"call", hook, arg>>)]

HookError(hook) == [kind |-> hook, attempt |-> 0]

\* (a start() that marks the widget not running when authorization failed)
startAfterAuthorize_FailedFlag(tk, w) ==
    IF tk.auth = "threw"
      THEN [task |-> Catch(tk, w, tk.err),
            widget |-> [w EXCEPT !.isInitialized = FALSE]]
      ELSE LET w1 == [w EXCEPT !.authData = tk.res]
           IN  IF ~w1.authData.authorized
                 THEN [task |-> Resolve(tk), widget |-> w1]
                 ELSE LET w2 == [w1 EXCEPT !.config = w1.authData.config]
                          t2 == [tk EXCEPT !.hooks =
                                    Append(@, <<"set", "config", w2.config>>)]
                      IN  [task |-> HookCall(t2, "onInit", w2.config),
                           widget |-> w2]
\* (a start() that renders without initializing)
startAfterAuthorize_SkipInit(tk, w) ==
    IF tk.auth = "threw"
      THEN [task |-> Catch(tk, w, tk.err), widget |-> w]
      ELSE LET w1 == [w EXCEPT !.authData = tk.res]
           IN  IF ~w1.authData.authorized
                 THEN [task |-> Resolve(tk), widget |-> w1]
                 ELSE LET w2 == [w1 EXCEPT !.config = w1.authData.config]
                          t2 == [tk EXCEPT !.hooks =
                                    Append(@, <<"set", "config", w2.config>>)]
                      IN  [task |-> HookCall(t2, "onRender", w2.config),
                           widget |-> w2]
\* (a start() that returns at once when the widget is already running)
startAfterAuthorize_OnceOnly(tk, w) ==
    IF tk.auth = "threw"
      THEN [task |-> Catch(tk, w, tk.err), widget |-> w]
      ELSE LET w1 == [w EXCEPT !.authData = tk.res]
           IN  IF ~w1.authData.authorized \/ w.isInitialized
                 THEN [task |-> Resolve(tk), widget |-> w1]
                 ELSE LET w2 == [w1 EXCEPT !.config = w1.authData.config]
                          t2 == [tk EXCEPT !.hooks =
                                    Append(@, <<"set", "config", w2.config>>)]
                      IN  [task |-> HookCall(t2, "onInit", w2.config),
                           widget |-> w2]
\* (a start() that stores authData only after the authorized check)
startAfterAuthorize_AuthDataLate(tk, w) ==
    IF tk.auth = "threw"
      THEN [task |-> Catch(tk, w, tk.err), widget |-> w]
      ELSE IF ~tk.res.authorized
             THEN [task |-> Resolve(tk), widget |-> w]
             ELSE LET w2 == [w EXCEPT !.authData = tk.res,
                                      !.config = tk.res.config]
                      t2 == [tk EXCEPT !.hooks =
                                Append(@, <<"set", "config", w2.config>>)]
                  IN  [task |-> HookCall(t2, "onInit", w2.config),
                       widget |-> w2]
\* (a start() that does not look at the authorized flag)
startAfterAuthorize_NoAuthCheck(tk, w) ==
    IF tk.auth = "threw"
      THEN [task |-> Catch(tk, w, tk.err), widget |-> w]
      ELSE LET w2 == [w EXCEPT !.authData = tk.res, !.config = tk.res.config]
               t2 == [tk EXCEPT !.hooks =
                         Append(@, <<"set", "config", w2.config>>)]
           IN  [task |-> HookCall(t2, "onInit", w2.config), widget |-> w2]
\* start(), from "this.authData = await this.authorize()" to "await this.onInit"
startAfterAuthorize(tk, w) ==
    IF tk.auth = "threw"
      THEN [task |-> Catch(tk, w, tk.err), widget |-> w]
      ELSE LET w1 == [w EXCEPT !.authData = tk.res]
           IN  IF ~w1.authData.authorized
                 THEN [task |-> Resolve(tk), widget |-> w1]
                 ELSE LET w2 == [w1 EXCEPT !.config = w1.authData.config]
                          t2 == [tk EXCEPT !.hooks =
                                    Append(@, <<"set", "config", w2.config>>)]
                      IN  [task |-> HookCall(t2, "onInit", w2.config),
                           widget |-> w2]

\* const newConfig = this.authData.config, read in the step that assigned
\* authData from this call's result
newConfig(tk) == tk.res.config

\* (a reload() that stores the new config before it calls the hooks)
reloadAfterAuthorize_ConfigEarly(tk, w) ==
    IF tk.auth = "threw"
      THEN [task |-> Catch(tk, w, tk.err), widget |-> w]
      ELSE LET w1 == [w EXCEPT !.authData = tk.res]
               w2 == [w1 EXCEPT !.config = newConfig(tk)]
           IN  IF ~w1.authData.authorized
                 THEN [task |-> Resolve(tk), widget |-> w1]
                 ELSE IF w1.hasConfigUpdate
                        THEN [task |-> HookCall(tk, "onConfigUpdate", newConfig(tk)),
                              widget |-> w2]
                        ELSE [task |-> HookCall(tk, "onDestroy", NoArg),
                              widget |-> w2]
\* (a reload() that returns at once on a widget that is not running)
reloadAfterAuthorize_OnlyRunning(tk, w) ==
    IF tk.auth = "threw"
      THEN [task |-> Catch(tk, w, tk.err), widget |-> w]
      ELSE LET w1 == [w EXCEPT !.authData = tk.res]
           IN  IF ~w1.authData.authorized \/ ~w.isInitialized
                 THEN [task |-> Resolve(tk), widget |-> w1]
                 ELSE IF w1.hasConfigUpdate
                        THEN [task |-> HookCall(tk, "onConfigUpdate", newConfig(tk)),
                              widget |-> w1]
                        ELSE [task |-> HookCall(tk, "onDestroy", NoArg),
                              widget |-> w1]
\* (a reload() that does not look at the authorized flag)
reloadAfterAuthorize_NoAuthCheck(tk, w) ==
    IF tk.auth = "threw"
      THEN [task |-> Catch(tk, w, tk.err), widget |-> w]
      ELSE LET w1 == [w EXCEPT !.authData = tk.res]
           IN  IF w1.hasConfigUpdate
                 THEN [task |-> HookCall(tk, "onConfigUpdate", newConfig(tk)),
                       widget |-> w1]
                 ELSE [task |-> HookCall(tk, "onDestroy", NoArg),
                       widget |-> w1]
\* (a reload() that always destroys and renders again)
reloadAfterAuthorize_AlwaysRerender(tk, w) ==
    IF tk.auth = "threw"
      THEN [task |-> Catch(tk, w, tk.err), widget |-> w]
      ELSE LET w1 == [w EXCEPT !.authData = tk.res]
           IN  IF ~w1.authData.authorized
                 THEN [task |-> Resolve(tk), widget |-> w1]
                 ELSE [task |-> HookCall(tk, "onDestroy", NoArg),
                       widget |-> w1]
\* reload(), from "this.authData = await this.authorize()" to the first hook
reloadAfterAuthorize(tk, w) ==
    IF tk.auth = "threw"
      THEN [task |-> Catch(tk, w, tk.err), widget |-> w]
      ELSE LET w1 == [w EXCEPT !.authData = tk.res]
           IN  IF ~w1.authData.authorized
                 THEN [task |-> Resolve(tk), widget |-> w1]
                 ELSE IF w1.hasConfigUpdate
                        THEN [task |-> HookCall(tk, "onConfigUpdate", newConfig(tk)),
                              widget |-> w1]
                        ELSE [task |-> HookCall(tk, "onDestroy", NoArg),
                              widget |-> w1]

\* (a start() that marks the widget running before it renders)
afterHook_MarksEarly(tk0, w) ==
    LET tk == [tk0 EXCEPT !.hooks = Append(@, <<"return", tk0.pc, NoArg>>)]
    IN  CASE tk.op = "start" /\ tk.pc = "onInit" ->
               [task |-> HookCall([tk EXCEPT !.hooks =
                                Append(@, <<"set", "isInitialized", "true">>)],
                                  "onRender", w.config),
                widget |-> [w EXCEPT !.isInitialized = TRUE]]
          [] tk.op = "start" /\ tk.pc = "onRender" ->
               [task |-> Resolve(track(tk, w, "widget_loaded")), widget |-> w]
          [] tk.op = "stop" /\ tk.pc = "onDestroy" ->
               [task |-> Resolve([tk EXCEPT !.hooks =
                                Append(@, <<"set", "isInitialized", "false">>)]),
                widget |-> [w EXCEPT !.isInitialized = FALSE]]
          [] tk.op = "reload" /\ tk.pc = "onDestroy" ->
               [task |-> HookCall(tk, "onRender", newConfig(tk)), widget |-> w]
          [] tk.op = "reload" /\ tk.pc \in {"onRender", "onConfigUpdate"} ->
               [task |-> Resolve([tk EXCEPT !.hooks =
                                Append(@, <<"set", "config", newConfig(tk)>>)]),
                widget |-> [w EXCEPT !.config = newConfig(tk)]]
\* (a start() that forgets to mark the widget running)
afterHook_NoMark(tk0, w) ==
    LET tk == [tk0 EXCEPT !.hooks = Append(@, <<"return", tk0.pc, NoArg>>)]
    IN  CASE tk.op = "start" /\ tk.pc = "onInit" ->
               [task |-> HookCall(tk, "onRender", w.config), widget |-> w]
          [] tk.op = "start" /\ tk.pc = "onRender" ->
               [task |-> Resolve(track(tk, w, "widget_loaded")), widget |-> w]
          [] tk.op = "stop" /\ tk.pc = "onDestroy" ->
               [task |-> Resolve([tk EXCEPT !.hooks =
                                Append(@, <<"set", "isInitialized", "false">>)]),
                widget |-> [w EXCEPT !.isInitialized = FALSE]]
          [] tk.op = "reload" /\ tk.pc = "onDestroy" ->
               [task |-> HookCall(tk, "onRender", newConfig(tk)), widget |-> w]
          [] tk.op = "reload" /\ tk.pc \in {"onRender", "onConfigUpdate"} ->
               [task |-> Resolve([tk EXCEPT !.hooks =
                                Append(@, <<"set", "config", newConfig(tk)>>)]),
                widget |-> [w EXCEPT !.config = newConfig(tk)]]
\* the call goes on after the awaited hook returned
afterHook(tk0, w) ==
    LET tk == [tk0 EXCEPT !.hooks = Append(@, <<"return", tk0.pc, NoArg>>)]
    IN  CASE tk.op = "start" /\ tk.pc = "onInit" ->
               [task |-> HookCall(tk, "onRender", w.config), widget |-> w]
          [] tk.op = "start" /\ tk.pc = "onRender" ->
               [task |-> Resolve(track(
                            [tk EXCEPT !.hooks =
                                Append(@, <<"set", "isInitialized", "true">>)],
                            w, "widget_loaded")),
                widget |-> [w EXCEPT !.isInitialized = TRUE]]
          [] tk.op = "stop" /\ tk.pc = "onDestroy" ->
               [task |-> Resolve([tk EXCEPT !.hooks =
                                Append(@, <<"set", "isInitialized", "false">>)]),
                widget |-> [w EXCEPT !.isInitialized = FALSE]]
          [] tk.op = "reload" /\ tk.pc = "onDestroy" ->
               [task |-> HookCall(tk, "onRender", newConfig(tk)), widget |-> w]
          [] tk.op = "reload" /\ tk.pc \in {"onRender", "onConfigUpdate"} ->
               [task |-> Resolve([tk EXCEPT !.hooks =
                                Append(@, <<"set", "config", newConfig(tk)>>)]),
                widget |-> [w EXCEPT !.config = newConfig(tk)]]

HookPcs == {"onInit", "onRender", "onDestroy", "onConfigUpdate"}

\* authorize()'s promise has settled: the caller goes on
AuthorizeReturn(t) ==
    LET tk == tasks[t]
        r  == IF tk.op = "start"
                THEN startAfterAuthorize(leaveAuthorize(tk), widgets[tk.inst])
                ELSE reloadAfterAuthorize(leaveAuthorize(tk), widgets[tk.inst])
    IN  /\ tk.pc = "authReturn"
        /\ tasks' = [tasks EXCEPT ![t] = r.task]
        /\ widgets' = [widgets EXCEPT ![tk.inst] = r.widget]
        /\ UNCHANGED <<storage, currentScript, constructed, now, readyState, preview, store, lastCached>>

\* the awaited hook returns (its promise resolves)
HookReturn(t) ==
    LET tk == tasks[t]
        r  == afterHook(tk, widgets[tk.inst])
    IN  /\ tk.pc \in HookPcs
        /\ tasks' = [tasks EXCEPT ![t] = r.task]
        /\ widgets' = [widgets EXCEPT ![tk.inst] = r.widget]
        /\ UNCHANGED <<storage, currentScript, constructed, now, readyState, preview, store, lastCached>>

\* (a hook that threw is called once more before the error is caught)
HookThrow_RetryOnce(t) ==
    LET tk == tasks[t]
        thrown == [tk EXCEPT !.hooks = Append(@, <<"throw", tk.pc, NoArg>>)]
        again == Len(SelectSeq(tk.hooks, LAMBDA e : e[1] = "throw")) = 0
    IN  /\ tk.pc \in HookPcs
        /\ tasks' = [tasks EXCEPT ![t] =
                        IF again
                          THEN HookCall(thrown, tk.pc, NoArg)
                          ELSE Catch(thrown, widgets[tk.inst], HookError(tk.pc))]
        /\ UNCHANGED <<storage, currentScript, constructed, now, readyState, preview, store, widgets, lastCached>>
\* the awaited hook throws (its promise rejects): the catch clause runs
HookThrow(t) ==
    LET tk == tasks[t]
        thrown == [tk EXCEPT !.hooks = Append(@, <<"throw", tk.pc, NoArg>>)]
    IN  /\ tk.pc \in HookPcs
        /\ tasks' = [tasks EXCEPT ![t] =
                        Catch(thrown, widgets[tk.inst], HookError(tk.pc))]
        /\ UNCHANGED <<storage, currentScript, constructed, now, readyState, preview, store, widgets, lastCached>>

-----------------------------------------------------------------------------
(* Spec: one instance, constructed from a script element that carries the  *)
(* three attributes; the caller awaits each call before the next (the      *)
(* sequential discipline the runtime assumes).  The store starts with any  *)
(* content under the instance's key.                                       *)

OptionSets ==
    [ cache : BOOLEAN, cacheDuration : CacheDurations,
      retryAttempts : 1..MaxRetry, retryDelay : RetryDelays,
      analytics : BOOLEAN ]

SpecScript == [websiteId |-> "w", appId |-> "a", url |-> "u"]

\* what the store can hold under the instance's key when the page loads:
\* nothing, text that is no JSON, or an entry written on an earlier visit
\* (the entries with the other bodies come from the instance's own writes)
EarlierResponses == {r \in ServerResponses : r.authorized /\ r.config = "c2"}
InitItems ==
    {NoItem, Garbage}
        \cup {JSONstringify([data |-> d, timestamp |-> 0]) : d \in EarlierResponses}

Init ==
    \E opts \in OptionSets, hasCU \in BOOLEAN, item \in InitItems,
       pv \in {Undefined} \cup PreviewConfigs :
        LET c == constructor(SpecScript, opts, hasCU)
        IN  /\ ~c.thrown
            /\ widgets = [i \in Insts |-> IF i = "A" THEN c.widget ELSE NoWidget]
            /\ store = [k \in CacheKeys |->
                            IF k = getCacheKey(c.widget) THEN item ELSE NoItem]
            /\ currentScript = SpecScript
            /\ constructed = "created"
            /\ preview = pv
            /\ now = 0
            /\ readyState = "loading"
            /\ tasks = [t \in Tasks |-> IdleTask]
            /\ lastCached = [i \in Insts |-> Null]
            /\ storage = {}

NoCallInFlight == \A t \in Tasks : ~InFlight(tasks[t])

Next ==
    \/ \E op \in Ops : NoCallInFlight /\ Call("t1", "A", op)
    \/ DOMContentLoaded
    \/ Tick
    \/ \E t \in Tasks : StartAuthorize(t)
    \/ \E t \in Tasks, data \in ServerResponses : FetchOk(t, data)
    \/ \E t \in Tasks, kind \in FailureKinds : FetchFail(t, kind)
    \/ \E t \in Tasks : SleepDone(t)
    \/ \E t \in Tasks : AuthorizeReturn(t)
    \/ \E t \in Tasks : HookReturn(t)
    \/ \E t \in Tasks : HookThrow(t)

Spec == Init /\ [][Next]_vars

-----------------------------------------------------------------------------
(* SpecCtor: the constructor on every script element.  A page load sets    *)
(* document.currentScript; the widget script then constructs its instance. *)
(* At first the code runs outside any script element (currentScript null). *)

InitCtor ==
    /\ currentScript = Null
    /\ constructed = "none"
    /\ widgets = [i \in Insts |-> NoWidget]
    /\ store = [k \in CacheKeys |-> NoItem]
    /\ preview = Undefined
    /\ now = 0
    /\ readyState = "loading"
    /\ tasks = [t \in Tasks |-> IdleTask]
    /\ lastCached = [i \in Insts |-> Null]
    /\ storage = {}

\* new Widget({options: opts}) while currentScript is the executing script
Construct(i, opts, hasCU) ==
    LET c == constructor(currentScript, opts, hasCU)
    IN  /\ constructed = "none"
        /\ constructed' = IF c.thrown THEN "thrown" ELSE "created"
        /\ widgets' = IF c.thrown THEN widgets
                                  ELSE [widgets EXCEPT ![i] = c.widget]
        /\ UNCHANGED <<storage, currentScript, now, readyState, preview, store, tasks,
                       lastCached>>

\* the page is loaded again with another script element
PageLoad(script) ==
    /\ constructed # "none"
    /\ currentScript' = script
    /\ constructed' = "none"
    /\ widgets' = [i \in Insts |-> NoWidget]
    /\ UNCHANGED <<storage, now, readyState, preview, store, tasks, lastCached>>

NextCtor ==
    \/ \E opts \in OptionSets, hasCU \in BOOLEAN : Construct("A", opts, hasCU)
    \/ \E script \in Scripts : PageLoad(script)

SpecCtor == InitCtor /\ [][NextCtor]_vars

-----------------------------------------------------------------------------
(* SpecLive: Spec for a widget without onConfigUpdate and with analytics   *)
(* off, under the scheduling of the event loop: a request in flight is     *)
(* answered or fails, time passes while a timer is pending, and a timer    *)
(* that is due fires.                                                      *)

InitLive ==
    /\ Init
    /\ ~widgets["A"].options.analytics
    /\ ~widgets["A"].hasConfigUpdate

\* the clock goes on past the horizon as long as a setTimeout is pending
TickLive ==
    /\ \/ now + TickMs <= MaxTicks * TickMs
       \/ \E t \in Tasks : tasks[t].pc = "sleep" /\ now < tasks[t].wake
    /\ now' = now + TickMs
    /\ UNCHANGED <<storage, currentScript, constructed, readyState, preview, store, widgets,
                 tasks, lastCached>>

\* the request in flight completes, one way or the other
Network(t) ==
    \/ \E data \in ServerResponses : FetchOk(t, data)
    \/ \E kind \in FailureKinds : FetchFail(t, kind)

\* calls are made up to the horizon of the clock
NextLive ==
    \/ \E op \in Ops :
          NoCallInFlight /\ now <= MaxTicks * TickMs /\ Call("t1", "A", op)
    \/ DOMContentLoaded
    \/ TickLive
    \/ \E t \in Tasks : StartAuthorize(t)
    \/ \E t \in Tasks : Network(t)
    \/ \E t \in Tasks : SleepDone(t)
    \/ \E t \in Tasks : AuthorizeReturn(t)
    \/ \E t \in Tasks : HookReturn(t)
    \/ \E t \in Tasks : HookThrow(t)

SpecLive ==
    /\ InitLive
    /\ [][NextLive]_vars
    /\ WF_vars(TickLive)
    /\ \A t \in Tasks : WF_vars(Network(t)) /\ WF_vars(SleepDone(t))

-----------------------------------------------------------------------------
(* SpecKeys: two instances on one page, each constructed from a script     *)
(* element with any of the ids; an instance that has been authorized       *)
(* writes the result under its cache key.                                  *)

IdScripts == [websiteId : WebsiteIds, appId : AppIds, url : {"u"}]

\* caching on, one attempt
KeyOptions ==
    [cache |-> TRUE, cacheDuration |-> 1, retryAttempts |-> 1,
     retryDelay |-> TickMs, analytics |-> FALSE]

InitKeys == InitCtor

\* new Widget() in the script element script
ConstructWith(i, script) ==
    LET c == constructor(script, KeyOptions, FALSE)
    IN  /\ ~widgets[i].exists
        /\ ~c.thrown
        /\ widgets' = [widgets EXCEPT ![i] = c.widget]
        /\ currentScript' = script
        /\ constructed' = "created"
        /\ UNCHANGED <<storage, now, readyState, preview, store, tasks, lastCached>>

\* the instance's authorization succeeded with body data: saveToCache(data)
CacheWrite(i, data) ==
    /\ widgets[i].exists
    /\ widgets[i].options.cache
    /\ store' = saveToCache(widgets[i], store, data, now)
    /\ UNCHANGED <<storage, currentScript, constructed, now, readyState, preview, widgets,
                 tasks, lastCached>>

NextKeys ==
    \/ \E i \in Insts, script \in IdScripts : ConstructWith(i, script)
    \/ \E i \in Insts, data \in ServerResponses : CacheWrite(i, data)

SpecKeys == InitKeys /\ [][NextKeys]_vars

-----------------------------------------------------------------------------
(* SpecOverlap: the caller does not await start(): while the one start()   *)
(* of the instance is suspended in the retry loop (a request in flight or  *)
(* a delay pending), stop() is called, any number of times, and its        *)
(* onDestroy settles there or not at all.                                  *)

InLoop(tk) == tk.op = "start" /\ tk.pc \in {"fetch", "sleep"}

NextOverlap ==
    \/ tasks["t1"].pc = "idle" /\ Call("t1", "A", "start")
    \/ InLoop(tasks["t1"]) /\ Call("t2", "A", "stop")
    \/ InLoop(tasks["t1"]) /\ HookReturn("t2")
    \/ InLoop(tasks["t1"]) /\ HookThrow("t2")
    \/ DOMContentLoaded
    \/ Tick
    \/ StartAuthorize("t1")
    \/ \E data \in ServerResponses : FetchOk("t1", data)
    \/ \E kind \in FailureKinds : FetchFail("t1", kind)
    \/ SleepDone("t1")
    \/ AuthorizeReturn("t1")
    \/ HookReturn("t1")
    \/ HookThrow("t1")

SpecOverlap == Init /\ [][NextOverlap]_vars

-----------------------------------------------------------------------------
(* SpecTwo: two instances on one loaded page, both caching; A has the ids  *)
(* ("w", "a_a"), B has the same pair or another one.  Each instance has    *)
(* its own caller, which makes one call, so a call on A and a call on B   *)
(* can be in flight together.                                             *)

PairOfA == <<"w", "a_a">>
PairsOfB == {<<"w", "a_a">>, <<"w_a", "a">>, <<"w", "a">>}

ScriptOf(pair) == [websiteId |-> pair[1], appId |-> pair[2], url |-> "u"]

InitTwo ==
    \E pairB \in PairsOfB :
        /\ widgets = [i \in Insts |->
                        constructor(ScriptOf(IF i = "A" THEN PairOfA ELSE pairB),
                                    KeyOptions, FALSE).widget]
        /\ store = [k \in CacheKeys |-> NoItem]
        /\ currentScript = ScriptOf(pairB)
        /\ constructed = "created"
        /\ preview = Undefined
        /\ now = 0
        /\ readyState = "interactive"
        /\ tasks = [t \in Tasks |-> IdleTask]
        /\ lastCached = [i \in Insts |-> Null]
        /\ storage = {}

TwoOps == {"start", "reload"}

NextTwo ==
    \/ \E op \in TwoOps : tasks["t1"].pc = "idle" /\ Call("t1", "A", op)
    \/ \E op \in TwoOps : tasks["t2"].pc = "idle" /\ Call("t2", "B", op)
    \/ Tick
    \/ \E t \in Tasks : StartAuthorize(t)
    \/ \E t \in Tasks, data \in ServerResponses : FetchOk(t, data)
    \/ \E t \in Tasks, kind \in FailureKinds : FetchFail(t, kind)
    \/ \E t \in Tasks : AuthorizeReturn(t)
    \/ \E t \in Tasks : HookReturn(t)
    \/ \E t \in Tasks : HookThrow(t)

SpecTwo == InitTwo /\ [][NextTwo]_vars

-----------------------------------------------------------------------------
(* SpecBudget: Spec for a widget constructed with any retry budget, zero   *)
(* and negative included (the option is the caller's number, unchecked);   *)
(* analytics off, no onConfigUpdate, no preview override.                  *)

RetryBudgets == (0 - 1)..MaxRetry

BudgetOptionSets ==
    [ cache : BOOLEAN, cacheDuration : CacheDurations,
      retryAttempts : RetryBudgets, retryDelay : RetryDelays,
      analytics : {FALSE} ]

InitBudget ==
    \E opts \in BudgetOptionSets, item \in InitItems :
        LET c == constructor(SpecScript, opts, FALSE)
        IN  /\ widgets = [i \in Insts |-> IF i = "A" THEN c.widget ELSE NoWidget]
            /\ store = [k \in CacheKeys |->
                            IF k = getCacheKey(c.widget) THEN item ELSE NoItem]
            /\ currentScript = SpecScript
            /\ constructed = "created"
            /\ preview = Undefined
            /\ now = 0
            /\ readyState = "loading"
            /\ tasks = [t \in Tasks |-> IdleTask]
            /\ lastCached = [i \in Insts |-> Null]
            /\ storage = {}

SpecBudget == InitBudget /\ [][Next]_vars

-----------------------------------------------------------------------------
(* SpecTelemetry: Spec for a widget with at most two authorization        *)
(* attempts and no preview override, and with the analytics requests       *)
(* settling, each at any time after track() issued it.                     *)

InitTelemetry ==
    /\ Init
    /\ widgets["A"].options.retryAttempts <= 2
    /\ preview = Undefined

NextTelemetry ==
    \/ Next
    \/ \E t \in Tasks :
          \E k \in 1..Len(tasks[t].posts), outcome \in {"ok", "failed"} :
              TelemetrySettle(t, k, outcome)

SpecTelemetry == InitTelemetry /\ [][NextTelemetry]_vars

-----------------------------------------------------------------------------
(* SpecReady: the ready event fires if the document is loading, and a      *)
(* start() whose waitForDOM() promise has resolved is resumed.             *)

SpecReady ==
    /\ InitLive
    /\ [][NextLive]_vars
    /\ WF_vars(DOMContentLoaded)
    /\ \A t \in Tasks : WF_vars(StartAuthorize(t))

-----------------------------------------------------------------------------
(* SpecStore: Spec for a caching widget on a page whose localStorage       *)
(* throws from any of its methods; at most two attempts, analytics off,    *)
(* no onConfigUpdate, no preview override.                                 *)

StoreOptionSets ==
    [ cache : {TRUE}, cacheDuration : CacheDurations,
      retryAttempts : 1..(MaxRetry - 1), retryDelay : RetryDelays,
      analytics : {FALSE} ]

InitStore ==
    \E opts \in StoreOptionSets, item \in InitItems,
       failing \in SUBSET StorageMethods :
        LET c == constructor(SpecScript, opts, FALSE)
        IN  /\ widgets = [i \in Insts |-> IF i = "A" THEN c.widget ELSE NoWidget]
            /\ store = [k \in CacheKeys |->
                            IF k = getCacheKey(c.widget) THEN item ELSE NoItem]
            /\ currentScript = SpecScript
            /\ constructed = "created"
            /\ preview = Undefined
            /\ now = 0
            /\ readyState = "loading"
            /\ tasks = [t \in Tasks |-> IdleTask]
            /\ lastCached = [i \in Insts |-> Null]
            /\ storage = failing

SpecStore == InitStore /\ [][Next]_vars

-----------------------------------------------------------------------------
(* SpecStarts: the caller does not await start(): a second start() is      *)
(* called on the instance while the first is suspended (on the ready       *)
(* event, a request or a hook).  One attempt, analytics off, no preview    *)
(* override, nothing in the store when the page loads.                     *)

StartsOptionSets ==
    [ cache : BOOLEAN, cacheDuration : CacheDurations,
      retryAttempts : {1}, retryDelay : RetryDelays,
      analytics : {FALSE} ]

InitStarts ==
    \E opts \in StartsOptionSets :
        LET c == constructor(SpecScript, opts, FALSE)
        IN  /\ widgets = [i \in Insts |-> IF i = "A" THEN c.widget ELSE NoWidget]
            /\ store = [k \in CacheKeys |-> NoItem]
            /\ currentScript = SpecScript
            /\ constructed = "created"
            /\ preview = Undefined
            /\ now = 0
            /\ readyState = "loading"
            /\ tasks = [t \in Tasks |-> IdleTask]
            /\ lastCached = [i \in Insts |-> Null]
            /\ storage = {}

NextStarts ==
    \/ tasks["t1"].pc = "idle" /\ Call("t1", "A", "start")
    \/ tasks["t2"].pc = "idle" /\ InFlight(tasks["t1"]) /\ Call("t2", "A", "start")
    \/ DOMContentLoaded
    \/ Tick
    \/ \E t \in Tasks : StartAuthorize(t)
    \/ \E t \in Tasks, data \in ServerResponses : FetchOk(t, data)
    \/ \E t \in Tasks, kind \in FailureKinds : FetchFail(t, kind)
    \/ \E t \in Tasks : AuthorizeReturn(t)
    \/ \E t \in Tasks : HookReturn(t)
    \/ \E t \in Tasks : HookThrow(t)

SpecStarts == InitStarts /\ [][NextStarts]_vars

-----------------------------------------------------------------------------
(* Properties *)

KeyOf(i) == getCacheKey(widgets[i])
Opt(i) == widgets[i].options

\* C1: with a populated preview override, every authorize() returns the
\* authorized result whose config is the override itself, having issued no
\* request and made no localStorage call, whatever the store holds and
\* whatever the network would answer; it never reaches the retry loop.
C1_PreviewOnly ==
    \A t \in Tasks :
        LET tk == tasks[t]
        IN  (preview # Undefined /\ tk.auth # "none") =>
                /\ tk.auth = "returned"
                /\ tk.pc \notin {"fetch", "sleep"}
                /\ tk.res.authorized = TRUE
                /\ tk.res.config = preview
                /\ tk.reqs = 0
                /\ tk.cacheOps = <<>>

\* authorize() has just returned the override although the instance caches
\* and the store holds an entry under its key
C1_Witness ==
    \E t \in Tasks :
        LET tk == tasks[t]
        IN  /\ tk.pc = "authReturn"
            /\ tk.op = "start"
            /\ preview \in PreviewConfigs
            /\ tk.res.config = preview
            /\ Opt(tk.inst).cache
            /\ store[KeyOf(tk.inst)].kind = "json"
            /\ store[KeyOf(tk.inst)].data.config # preview

\* C2: caching enabled, no preview override: when start() enters
\* authorize() less than cacheDuration seconds after the instance's previous
\* network authorization cached its payload (and no reload() cleared the
\* entry since), authorize() issues no request and returns that payload.
C2_CachedWithinTtl ==
    \A t \in Tasks :
        LET tk == tasks[t]
        IN  ( /\ tk.pc = "authReturn"
              /\ tk.op = "start"
              /\ preview = Undefined
              /\ Opt(tk.inst).cache
              /\ tk.prev # Null
              /\ tk.t0 - tk.prev.time < Opt(tk.inst).cacheDuration * MsPerSecond )
            => /\ tk.auth = "returned"
               /\ tk.reqs = 0
               /\ tk.res = tk.prev.data

\* a second authorize(), one tick after the network one, has returned the
\* cached payload without a request
C2_Witness ==
    \E t \in Tasks :
        LET tk == tasks[t]
        IN  /\ tk.pc = "authReturn"
            /\ tk.op = "start"
            /\ preview = Undefined
            /\ Opt(tk.inst).cache
            /\ tk.prev # Null
            /\ tk.t0 - tk.prev.time = TickMs
            /\ tk.reqs = 0
            /\ tk.res = tk.prev.data

\* the item under the instance's key is an entry older than cacheDuration
StaleEntry(i) ==
    LET item == store[KeyOf(i)]
    IN  /\ item.kind = "json"
        /\ now - item.timestamp > Opt(i).cacheDuration * MsPerSecond

\* C3: caching enabled, no preview override: an authorize() that finds an
\* entry older than cacheDuration seconds removes it from the store and
\* issues a network request instead of returning it.
C3_StaleDiscarded ==
    [][\A t \in Tasks :
        ( /\ tasks[t].pc = "domReady"
          /\ tasks'[t].pc # "domReady"
          /\ preview = Undefined
          /\ Opt(tasks[t].inst).cache
          /\ StaleEntry(tasks[t].inst) )
        => /\ store'[KeyOf(tasks[t].inst)] = NoItem
           /\ tasks'[t].pc = "fetch"
           /\ tasks'[t].auth = "running"
           /\ tasks'[t].reqs = 1]_vars

\* authorize() has removed an entry and its first request is in flight
C3_Witness ==
    \E t \in Tasks :
        LET tk == tasks[t]
        IN  /\ tk.pc = "fetch"
            /\ tk.op = "start"
            /\ tk.cacheOps = <<"getItem", "removeItem">>
            /\ store[KeyOf(tk.inst)] = NoItem
            /\ tk.reqs = 1

\* C4: in the retry loop, the authorize() that returns a network result
\* returns it from attempt k <= retryAttempts after exactly k requests and
\* k - 1 delays, at least (k - 1) * retryDelay milliseconds after it was
\* entered; once it has returned it has no request or delay pending.
C4_FirstSuccessReturns ==
    \A t \in Tasks :
        LET tk == tasks[t]
        IN  /\ tk.auth = "returned" => tk.pc \notin {"fetch", "sleep"}
            /\ (tk.pc = "authReturn" /\ tk.auth = "returned" /\ tk.reqs >= 1) =>
                  /\ tk.attempt <= Opt(tk.inst).retryAttempts
                  /\ tk.reqs = tk.attempt
                  /\ tk.sleeps = tk.attempt - 1
                  /\ now - tk.t0 >= tk.sleeps * Opt(tk.inst).retryDelay
                  /\ tk.res \in ServerResponses

\* retryAttempts = 3, two failures, the third request succeeded: returned
\* after exactly two delays
C4_Witness ==
    \E t \in Tasks :
        LET tk == tasks[t]
        IN  /\ tk.pc = "authReturn"
            /\ tk.auth = "returned"
            /\ Opt(tk.inst).retryAttempts = 3
            /\ tk.reqs = 3
            /\ tk.sleeps = 2
            /\ now - tk.t0 = 2 * Opt(tk.inst).retryDelay

\* C5: retryAttempts = N >= 1: authorize() never issues more than N
\* requests, is never delayed after attempt N, and when it throws (every
\* attempt failed) it has issued exactly N requests and started exactly
\* N - 1 delays.
C5_ExhaustedAfterN ==
    \A t \in Tasks :
        LET tk == tasks[t]
            N  == Opt(tk.inst).retryAttempts
        IN  /\ tk.reqs <= N
            /\ tk.pc = "sleep" => tk.attempt < N
            /\ (tk.pc = "fetch" /\ tk.reqs = N) => tk.sleeps = N - 1
            /\ (tk.pc = "authReturn" /\ tk.auth = "threw") =>
                  /\ N >= 1
                  /\ tk.reqs = N
                  /\ tk.sleeps = N - 1
                  /\ tk.err.attempt = N
                  /\ tk.err.kind \in FailureKinds

\* retryAttempts = 3 and three failed requests: authorize() has thrown
C5_Witness ==
    \E t \in Tasks :
        LET tk == tasks[t]
        IN  /\ tk.pc = "authReturn"
            /\ tk.auth = "threw"
            /\ preview = Undefined
            /\ Opt(tk.inst).retryAttempts = 3
            /\ tk.reqs = 3
            /\ tk.sleeps = 2

\* an attribute that is missing or the empty string
Blank(a) == a \in {Missing, ""}

StartSequence(c) ==
    << <<"set", "config", c>>,
       <<"call", "onInit", c>>, <<"return", "onInit", NoArg>>,
       <<"call", "onRender", c>>, <<"return", "onRender", NoArg>>,
       <<"set", "isInitialized", "true">> >>

IsPrefix(s, f) ==
    /\ Len(s) <= Len(f)
    /\ \A k \in 1..Len(s) : s[k] = f[k]

\* the recorded sequence of a start() call is the expected one so far
C7_Trace ==
    \A t \in Tasks :
        LET tk == tasks[t]
        IN  (tk.op = "start" /\ tk.hooks # <<>>) =>
               /\ tk.res # Null
               /\ tk.res.authorized
               /\ widgets[tk.inst].config = tk.res.config
               /\ LET full == StartSequence(tk.res.config)
                  IN  \/ IsPrefix(tk.hooks, full)
                      \/ tk.hooks = Append(SubSeq(full, 1, 2),
                                           <<"throw", "onInit", NoArg>>)
                      \/ tk.hooks = Append(SubSeq(full, 1, 4),
                                           <<"throw", "onRender", NoArg>>)

\* isInitialized turns true only where start()'s onRender returns
C7_RunningStep ==
    \A i \in Insts :
        (~widgets[i].isInitialized /\ widgets'[i].isInitialized) =>
            \E t \in Tasks :
                /\ tasks[t].inst = i
                /\ tasks[t].op = "start"
                /\ tasks[t].pc = "onRender"
                /\ tasks'[t].pc = "done"
                /\ tasks'[t].hooks = StartSequence(tasks[t].res.config)

\* C7: a start() with an authorized result stores the config, calls
\* onInit(config), calls onRender(config) with the same config only after
\* onInit has returned, and sets isInitialized only after onRender has
\* returned; if onInit throws, onRender is not called.
C7_StartOrder == [](C7_Trace) /\ [][C7_RunningStep]_vars

\* a start() has run the whole sequence and the widget is Running
C7_Witness ==
    \E t \in Tasks :
        LET tk == tasks[t]
        IN  /\ tk.op = "start"
            /\ tk.pc = "done"
            /\ tk.res # Null
            /\ tk.hooks = StartSequence(tk.res.config)
            /\ widgets[tk.inst].isInitialized

ConfigHooks == {"onInit", "onRender", "onConfigUpdate"}

\* C8: every onInit, onRender and onConfigUpdate call of start() and
\* reload() gets the config of the call's authorization result, and that
\* result is authorized; a start() whose result is unauthorized ends with no
\* hook called, isInitialized not set, nothing reported and no error.
C8_HooksOnlyWhenAuthorized ==
    \A t \in Tasks :
        LET tk == tasks[t]
        IN  /\ \A k \in 1..Len(tk.hooks) :
                  (tk.hooks[k][1] = "call" /\ tk.hooks[k][2] \in ConfigHooks) =>
                      /\ tk.res # Null
                      /\ tk.res.authorized
                      /\ tk.hooks[k][3] = tk.res.config
            /\ ( /\ tk.op = "start"
                 /\ tk.auth = "returned"
                 /\ ~tk.res.authorized
                 /\ tk.pc # "authReturn" )
               => /\ tk.pc = "done"
                  /\ tk.outcome = "resolved"
                  /\ tk.hooks = <<>>
                  /\ tk.reported = 0

\* a start() got an unauthorized result and has ended: the widget is not
\* Running
C8_Witness ==
    \E t \in Tasks :
        LET tk == tasks[t]
        IN  /\ tk.op = "start"
            /\ tk.pc = "done"
            /\ tk.auth = "returned"
            /\ ~tk.res.authorized
            /\ ~widgets[tk.inst].isInitialized
            /\ widgets[tk.inst].authData = tk.res

C10_StartThrows ==
    \A t \in Tasks :
        LET tk == tasks[t]
        IN  (tk.op = "start" /\ tk.pc = "done" /\ tk.reported > 0) =>
                tk.outcome = "rejected"

\* C11: stop() calls onDestroy() and a stop() that has ended leaves the
\* widget stopped (isInitialized false), also when onDestroy threw.
C11_StopAlwaysStops ==
    \A t \in Tasks :
        LET tk == tasks[t]
        IN  (tk.op = "stop" /\ tk.pc = "done") =>
                /\ tk.hooks # <<>>
                /\ tk.hooks[1] = <<"call", "onDestroy", NoArg>>
                /\ ~widgets[tk.inst].isInitialized

\* C12: a stop() called right after a stop() that ended normally (the
\* widget is stopped) calls no hook and ends at once, without raising.
C12_StopIdempotent ==
    [][\A t \in Tasks :
        ( /\ tasks[t].op = "stop"
          /\ tasks[t].pc = "done"
          /\ tasks[t].reported = 0
          /\ ~widgets[tasks[t].inst].isInitialized
          /\ tasks'[t] # tasks[t]
          /\ tasks'[t].op = "stop" )
        => /\ tasks'[t].hooks = <<>>
           /\ tasks'[t].pc = "done"
           /\ tasks'[t].outcome = "resolved"]_vars

\* a reload() whose authorization returned an unauthorized result ends at
\* once: no hook, nothing reported, resolved
C13_Ended ==
    \A t \in Tasks :
        LET tk == tasks[t]
        IN  ( /\ tk.op = "reload"
              /\ tk.auth = "returned"
              /\ ~tk.res.authorized
              /\ tk.pc # "authReturn" )
            => /\ tk.pc = "done"
               /\ tk.outcome = "resolved"
               /\ tk.hooks = <<>>
               /\ tk.reported = 0

\* the step in which reload() takes the unauthorized result leaves config
\* and isInitialized as they were
C13_Frame ==
    \A t \in Tasks :
        ( /\ tasks[t].op = "reload"
          /\ tasks[t].pc = "authReturn"
          /\ tasks[t].auth = "returned"
          /\ ~tasks[t].res.authorized
          /\ tasks'[t] # tasks[t] )
        => /\ widgets'[tasks[t].inst].config = widgets[tasks[t].inst].config
           /\ widgets'[tasks[t].inst].isInitialized
                  = widgets[tasks[t].inst].isInitialized

\* C13: a reload() whose fresh authorization is unauthorized calls none of
\* onDestroy, onRender, onConfigUpdate, leaves the stored config and
\* isInitialized unchanged, reports no error and resolves.
C13_UnauthorizedReloadNoEffect == [](C13_Ended) /\ [][C13_Frame]_vars

\* a Running widget with a stored config has ended a reload() that got an
\* unauthorized result
C13_Witness ==
    \E t \in Tasks :
        LET tk == tasks[t]
        IN  /\ tk.op = "reload"
            /\ tk.pc = "done"
            /\ tk.auth = "returned"
            /\ ~tk.res.authorized
            /\ tk.hooks = <<>>
            /\ widgets[tk.inst].isInitialized
            /\ widgets[tk.inst].config \in Configs
            /\ widgets[tk.inst].authData = tk.res

\* what a reload() with an authorized result of config c does, in order
ReloadSequence(hasCU, c) ==
    IF hasCU
      THEN << <<"call", "onConfigUpdate", c>>,
              <<"return", "onConfigUpdate", NoArg>>,
              <<"set", "config", c>> >>
      ELSE << <<"call", "onDestroy", NoArg>>, <<"return", "onDestroy", NoArg>>,
              <<"call", "onRender", c>>, <<"return", "onRender", NoArg>>,
              <<"set", "config", c>> >>

\* s is f up to one of its hook calls, followed by that hook throwing
IsCutByThrow(s, f) ==
    \E k \in 1..Len(f) :
        /\ f[k][1] = "call"
        /\ s = Append(SubSeq(f, 1, k), <<"throw", f[k][2], NoArg>>)

\* C14: a reload() with an authorized result calls, when the widget has
\* onConfigUpdate, onConfigUpdate(newConfig) and nothing else; otherwise
\* onDestroy() and, only after it has returned, onRender(newConfig); it
\* never calls onInit, and it ends with config = newConfig unless a hook
\* threw.
C14_ReloadHooks ==
    \A t \in Tasks :
        LET tk == tasks[t]
        IN  /\ ( /\ tk.op = "reload"
                 /\ tk.auth = "returned"
                 /\ tk.res.authorized
                 /\ tk.pc # "authReturn" )
               => LET full == ReloadSequence(widgets[tk.inst].hasConfigUpdate,
                                             tk.res.config)
                  IN  /\ tk.hooks # <<>>
                      /\ IsPrefix(tk.hooks, full) \/ IsCutByThrow(tk.hooks, full)
                      /\ tk.pc = "done" =>
                            \/ tk.hooks = full
                                 /\ widgets[tk.inst].config = tk.res.config
                            \/ IsCutByThrow(tk.hooks, full)
            /\ tk.op = "reload" =>
                  /\ \A k \in 1..Len(tk.hooks) : tk.hooks[k][2] # "onInit"
                  /\ tk.hooks # <<>> => (tk.auth = "returned" /\ tk.res.authorized)

\* a Running widget without onConfigUpdate has ended a reload(): onDestroy,
\* then onRender with the new config, now the stored one
C14_Witness ==
    \E t \in Tasks :
        LET tk == tasks[t]
        IN  /\ tk.op = "reload"
            /\ tk.pc = "done"
            /\ ~widgets[tk.inst].hasConfigUpdate
            /\ tk.res \in ServerResponses
            /\ tk.hooks = ReloadSequence(FALSE, tk.res.config)
            /\ widgets[tk.inst].isInitialized
            /\ widgets[tk.inst].config = tk.res.config

\* C15: no preview override: the authorize() of a reload() issues at least
\* one request and what it returns is the body of its last request, also
\* when the entry cached before the call was within its TTL; from the call
\* on, the store holds under the key no entry or the entry this reload()
\* fetched.
C15_ReloadBypassesCache ==
    \A t \in Tasks :
        LET tk   == tasks[t]
            item == store[KeyOf(tk.inst)]
        IN  tk.op = "reload" =>
              /\ (preview = Undefined /\ tk.pc = "authReturn") =>
                    /\ tk.reqs >= 1
                    /\ tk.cacheOps \in {<<>>, <<"getItem">>, <<"setItem">>,
                                        <<"getItem", "setItem">>}
                    /\ tk.auth = "returned" =>
                          /\ tk.res \in ServerResponses
                          /\ tk.reqs = tk.attempt
              /\ \/ item = NoItem
                 \/ /\ tk.auth = "returned"
                    /\ Opt(tk.inst).cache
                    /\ item.kind = "json"
                    /\ item.data = tk.res
                    /\ item.timestamp >= tk.t0

\* the authorize() of a reload(), entered one tick after the network
\* authorization that cached an entry, has returned another body from the
\* network, and the store holds it
C15_Witness ==
    \E t \in Tasks :
        LET tk == tasks[t]
        IN  /\ tk.op = "reload"
            /\ tk.pc = "authReturn"
            /\ preview = Undefined
            /\ Opt(tk.inst).cache
            /\ tk.prev # Null
            /\ tk.t0 - tk.prev.time = TickMs
            /\ tk.reqs >= 1
            /\ tk.auth = "returned"
            /\ tk.res # tk.prev.data
            /\ store[KeyOf(tk.inst)].kind = "json"
            /\ store[KeyOf(tk.inst)].data = tk.res

\* C16: a start() called while the widget is Running goes no further than
\* the call: it does not enter authorize() and calls no hook.
C16_StartOnlyWhenNotRunning ==
    \A t \in Tasks :
        LET tk == tasks[t]
        IN  (tk.op = "start" /\ InFlight(tk) /\ widgets[tk.inst].isInitialized)
                => (tk.auth = "none" /\ tk.hooks = <<>>)

\* the fields of the instance in which it keeps its lifecycle
Lifecycle(w) == <<w.isInitialized, w.config, w.authData>>

C17_NoMark ==
    \A t \in Tasks :
        LET tk == tasks[t]
        IN  (tk.op = "start" /\ tk.pc = "done" /\ tk.reported > 0) =>
                /\ tk.reported = 1
                /\ tk.outcome = "resolved"
                /\ \A k \in 1..Len(tk.hooks) : tk.hooks[k][2] # "isInitialized"

\* the step in which start() catches the error leaves isInitialized as it
\* was
C17_CatchFrame ==
    \A t \in Tasks :
        ( /\ tasks[t].op = "start"
          /\ tasks[t].pc # "done"
          /\ tasks'[t].op = "start"
          /\ tasks'[t].pc = "done"
          /\ tasks'[t].reported > tasks[t].reported )
        => widgets'[tasks[t].inst].isInitialized
               = widgets[tasks[t].inst].isInitialized

C18_Budget ==
    \A t \in Tasks :
        LET tk == tasks[t]
            N  == Opt(tk.inst).retryAttempts
        IN  /\ tk.reqs <= N
            /\ tk.sleeps <= N - 1
            /\ (tk.pc = "authReturn" /\ tk.auth = "threw") =>
                  (tk.reqs = N /\ tk.err.kind \in FailureKinds)

\* C18: if every request in flight completes and every pending delay
\* elapses, an authorize() that has been entered eventually returns or
\* throws; it issues at most retryAttempts requests and throws only after
\* retryAttempts failed ones.
C18_AuthorizeTerminates ==
    /\ [](C18_Budget)
    /\ \A t \in Tasks :
          (tasks[t].auth = "running") ~> (tasks[t].auth \in {"returned", "threw"})

\* retryAttempts = 2: an authorize() has returned the body of its second
\* request, after one failure and one delay
C18_Witness ==
    \E t \in Tasks :
        LET tk == tasks[t]
        IN  /\ tk.pc = "authReturn"
            /\ tk.auth = "returned"
            /\ Opt(tk.inst).retryAttempts = 2
            /\ tk.reqs = 2
            /\ tk.sleeps = 1

\* C19: two instances use the same cache key only if they have the same
\* (websiteId, appId) pair, also when an id contains '_'.
C19_KeyCollisionFree ==
    \A i, j \in Insts :
        ( /\ widgets[i].exists
          /\ widgets[j].exists
          /\ getCacheKey(widgets[i]) = getCacheKey(widgets[j]) )
        => /\ widgets[i].websiteId = widgets[j].websiteId
           /\ widgets[i].appId = widgets[j].appId

\* the start() runs its loop to a result or to exhaustion, and with an
\* authorized result goes through its whole sequence and leaves the widget
\* running, whatever stop() did meanwhile
C20_RunsOn ==
    LET tk == tasks["t1"]
        N  == Opt(tk.inst).retryAttempts
    IN  /\ (tk.pc = "authReturn" /\ tk.auth = "threw") => tk.reqs = N
        /\ (tk.pc = "done" /\ tk.auth = "threw") => tk.reported = 1
        /\ (tk.auth = "returned" /\ tk.res.authorized /\ tk.pc # "authReturn") =>
              LET full == StartSequence(tk.res.config)
              IN  /\ IsPrefix(tk.hooks, full) \/ IsCutByThrow(tk.hooks, full)
                  /\ tk.pc = "done" =>
                        \/ tk.hooks = full /\ widgets[tk.inst].isInitialized
                        \/ IsCutByThrow(tk.hooks, full)

\* a step of stop() leaves the start() where it is
C20_StopStep ==
    tasks'["t2"] # tasks["t2"] => tasks'["t1"] = tasks["t1"]

\* C20: a start() suspended in the retry loop is not aborted by a stop()
\* that is called and completes meanwhile: the loop goes on to a result or
\* to exhaustion, and with an authorized result start() then calls onInit
\* and onRender and sets isInitialized, after stop() has returned.
C20_NoCancellation == [](C20_RunsOn) /\ [][C20_StopStep]_vars

\* stop() was called and has ended (isInitialized = false assigned) while
\* the start() was in its loop; the start() has since run its whole
\* sequence and the widget is running
C20_Witness ==
    /\ tasks["t1"].op = "start"
    /\ tasks["t1"].pc = "done"
    /\ tasks["t1"].res \in ServerResponses
    /\ tasks["t1"].hooks = StartSequence(tasks["t1"].res.config)
    /\ tasks["t2"].op = "stop"
    /\ tasks["t2"].pc = "done"
    /\ tasks["t2"].hooks = << <<"call", "onDestroy", NoArg>>,
                              <<"return", "onDestroy", NoArg>>,
                              <<"set", "isInitialized", "false">> >>
    /\ widgets["A"].isInitialized

SamePair(i, j) ==
    /\ widgets[i].websiteId = widgets[j].websiteId
    /\ widgets[i].appId = widgets[j].appId

\* an authorize() that returned without a request (a cache hit) returned
\* what an instance with the same pair had fetched
C21_NoForeignRead ==
    \A t \in Tasks :
        LET tk == tasks[t]
        IN  (tk.pc = "authReturn" /\ tk.auth = "returned" /\ tk.reqs = 0) =>
                \E j \in Insts :
                    /\ SamePair(tk.inst, j)
                    /\ lastCached[j] # Null
                    /\ lastCached[j].data = tk.res

\* start() enters authorize() less than cacheDuration seconds after another
\* instance with the same pair cached its network result: a hit with that
\* payload, no request
C21_SharedHit ==
    \A t \in Tasks, j \in Insts :
        ( /\ tasks[t].pc = "domReady"
          /\ tasks'[t].pc # "domReady"
          /\ j # tasks[t].inst
          /\ SamePair(tasks[t].inst, j)
          /\ lastCached[j] # Null
          /\ now - lastCached[j].time < Opt(tasks[t].inst).cacheDuration * MsPerSecond )
        => /\ tasks'[t].pc = "authReturn"
           /\ tasks'[t].auth = "returned"
           /\ tasks'[t].reqs = 0
           /\ tasks'[t].res = lastCached[j].data

\* C21: instances with the same (websiteId, appId) pair share the cache
\* entry (an authorize() of one within cacheDuration of the other's network
\* authorization returns that payload without a request), and instances
\* with different pairs never read each other's entry.
C21_SharedByPairOnly == [](C21_NoForeignRead) /\ [][C21_SharedHit]_vars

\* the entry under an instance's key is nothing, or exactly the record one
\* instance with that key wrote: its body with its timestamp
C22_OneRecord ==
    \A i \in Insts :
        LET item == store[KeyOf(i)]
        IN  \/ item = NoItem
            \/ \E j \in Insts :
                  /\ KeyOf(j) = KeyOf(i)
                  /\ lastCached[j] # Null
                  /\ item = JSONstringify([data |-> lastCached[j].data,
                                           timestamp |-> lastCached[j].time])

\* the step in which a request of a caching instance succeeds leaves under
\* its key the record of that request, whatever was there
C22_LastWrite ==
    \A t \in Tasks :
        ( /\ tasks[t].pc = "fetch"
          /\ tasks'[t].pc = "authReturn"
          /\ tasks'[t].auth = "returned"
          /\ Opt(tasks[t].inst).cache )
        => store'[KeyOf(tasks[t].inst)]
               = JSONstringify([data |-> tasks'[t].res, timestamp |-> now])

\* C22: when two instances with the same pair race through network
\* authorization, each successful request overwrites the shared entry (the
\* last one to complete wins), and the entry is always one whole record
\* written by one instance.
C22_LastWriteWins == [](C22_OneRecord) /\ [][C22_LastWrite]_vars

\* two instances with the same pair have both missed the cache and both
\* fetched, with different bodies; the entry is B's whole record and A's was
\* written no later
C22_Witness ==
    /\ SamePair("A", "B")
    /\ tasks["t1"].op = "start" /\ tasks["t2"].op = "start"
    /\ tasks["t1"].pc = "authReturn" /\ tasks["t2"].pc = "authReturn"
    /\ tasks["t1"].reqs = 1 /\ tasks["t2"].reqs = 1
    /\ tasks["t1"].auth = "returned" /\ tasks["t2"].auth = "returned"
    /\ tasks["t1"].res # tasks["t2"].res
    /\ lastCached["A"].time < lastCached["B"].time
    /\ store[KeyOf("A")] = JSONstringify([data |-> tasks["t2"].res,
                                          timestamp |-> lastCached["B"].time])

\* C23: caching enabled, no preview override: the authorize() of start()
\* that finds an entry of age <= cacheDuration seconds (the limit included)
\* returns its data without a request and leaves the store as it is; only an
\* entry strictly older is removed and treated as a miss.
C23_TtlInclusive ==
    [][\A t \in Tasks :
        LET i    == tasks[t].inst
            item == store[KeyOf(i)]
        IN  ( /\ tasks[t].pc = "domReady"
              /\ tasks'[t].pc # "domReady"
              /\ preview = Undefined
              /\ Opt(i).cache
              /\ item.kind = "json" )
            => IF now - item.timestamp <= Opt(i).cacheDuration * MsPerSecond
                 THEN /\ tasks'[t].pc = "authReturn"
                      /\ tasks'[t].auth = "returned"
                      /\ tasks'[t].res = item.data
                      /\ tasks'[t].reqs = 0
                      /\ store' = store
                 ELSE /\ store'[KeyOf(i)] = NoItem
                      /\ tasks'[t].auth = "running"
                      /\ tasks'[t].cacheOps = <<"getItem", "removeItem">>]_vars

\* an authorize() has returned an entry whose age is exactly cacheDuration
\* seconds
C23_Witness ==
    \E t \in Tasks :
        LET tk   == tasks[t]
            item == store[KeyOf(tk.inst)]
        IN  /\ tk.op = "start"
            /\ tk.pc = "authReturn"
            /\ preview = Undefined
            /\ Opt(tk.inst).cache
            /\ item.kind = "json"
            /\ tk.t0 - item.timestamp = Opt(tk.inst).cacheDuration * MsPerSecond
            /\ tk.reqs = 0
            /\ tk.res = item.data

\* with caching off authorize() makes no localStorage call and, without a
\* preview override, ends only after a request; with caching on, the
\* authorize() that returns a network result has written it last
C24_Ops ==
    \A t \in Tasks :
        LET tk == tasks[t]
        IN  /\ ~Opt(tk.inst).cache =>
                  /\ tk.cacheOps = <<>>
                  /\ (preview = Undefined /\ tk.pc = "authReturn") => tk.reqs >= 1
            /\ ( /\ Opt(tk.inst).cache
                 /\ tk.pc = "authReturn"
                 /\ tk.auth = "returned"
                 /\ tk.reqs >= 1 )
               => (tk.cacheOps # <<>> /\ tk.cacheOps[Len(tk.cacheOps)] = "setItem")

\* the step in which a request succeeds writes {data, timestamp: now} under
\* the key exactly when caching is on; with caching off no step changes
\* the store, but for the clearCache() reload() makes before authorize()
C24_Writes ==
    /\ \A t \in Tasks :
          (tasks[t].pc = "fetch" /\ tasks'[t].pc = "authReturn"
               /\ tasks'[t].auth = "returned")
          => store'[KeyOf(tasks[t].inst)]
                 = IF Opt(tasks[t].inst).cache
                     THEN JSONstringify([data |-> tasks'[t].res, timestamp |-> now])
                     ELSE store[KeyOf(tasks[t].inst)]
    /\ (\A i \in Insts : widgets[i].exists => ~Opt(i).cache) =>
          \/ store' = store
          \/ \E t \in Tasks :
                /\ ~InFlight(tasks[t])
                /\ tasks'[t].op = "reload"
                /\ store' = clearCache(widgets[tasks'[t].inst], store)

\* C24: a successful network attempt persists the result with the current
\* timestamp, in the step that returns it, if and only if caching is
\* enabled; with caching disabled authorize() neither reads nor writes the
\* store and, without a preview override, always goes to the network.
C24_CacheOnlyIfEnabled == [](C24_Ops) /\ [][C24_Writes]_vars

\* caching is off and the store holds a fresh entry under the key: the
\* authorize() has gone to the network, returned the other body and left
\* the entry alone
C24_Witness ==
    \E t \in Tasks :
        LET tk   == tasks[t]
            item == store[KeyOf(tk.inst)]
        IN  /\ tk.op = "start"
            /\ tk.pc = "authReturn"
            /\ ~Opt(tk.inst).cache
            /\ preview = Undefined
            /\ tk.auth = "returned"
            /\ tk.reqs = 1
            /\ item.kind = "json"
            /\ tk.t0 = item.timestamp
            /\ tk.res # item.data
            /\ tk.cacheOps = <<>>

\* C25: the error authorize() throws after the loop is the failure of the
\* last attempt, attempt retryAttempts, when retryAttempts >= 1; when
\* retryAttempts <= 0 no request is issued, no failure is captured and the
\* error is the generic 'Authorization failed'.
C25_LastErrorOrGeneric ==
    \A t \in Tasks :
        LET tk == tasks[t]
            N  == Opt(tk.inst).retryAttempts
        IN  /\ N <= 0 => (tk.reqs = 0 /\ tk.sleeps = 0 /\ tk.pc # "fetch")
            /\ (tk.pc = "authReturn" /\ tk.auth = "threw") =>
                  IF N >= 1
                    THEN /\ tk.err.kind \in FailureKinds
                         /\ tk.err.attempt = N
                         /\ tk.reqs = N
                    ELSE /\ tk.err = [kind |-> "generic", attempt |-> 0]
                         /\ tk.reqs = 0

\* retryAttempts = 0: authorize() has thrown the generic error without a
\* request
C25_Witness ==
    \E t \in Tasks :
        LET tk == tasks[t]
        IN  /\ tk.pc = "authReturn"
            /\ tk.auth = "threw"
            /\ Opt(tk.inst).retryAttempts = 0
            /\ tk.reqs = 0
            /\ tk.err.kind = "generic"

\* the call failed: authorize() threw or the awaited hook threw
Failed(tk) ==
    \/ tk.auth = "threw"
    \/ tk.hooks # <<>> /\ tk.hooks[Len(tk.hooks)][1] = "throw"

ErrorEvents(tk) == {k \in 1..Len(tk.events) : tk.events[k] = "widget_error"}

\* a call reports its failure where it catches it, once, and has one
\* widget_error event for it exactly when analytics is on
C26_Once ==
    \A t \in Tasks :
        LET tk == tasks[t]
            w  == widgets[tk.inst]
        IN  /\ tk.pc # "done" => tk.reported = 0
            /\ tk.pc = "done" => tk.reported = (IF Failed(tk) THEN 1 ELSE 0)
            /\ Cardinality(ErrorEvents(tk))
                   = (IF w.options.analytics THEN tk.reported ELSE 0)
            /\ ~w.options.analytics => tk.events = <<>>
            /\ Len(tk.posts) = Len(tk.events)

\* the step in which an analytics request settles changes nothing else
C26_SettleFrame ==
    \A t \in Tasks :
        ( /\ tasks'[t].posts # tasks[t].posts
          /\ Len(tasks'[t].posts) = Len(tasks[t].posts) )
        => /\ tasks'[t] = [tasks[t] EXCEPT !.posts = tasks'[t].posts]
           /\ widgets' = widgets
           /\ store' = store

\* C26: every failure caught in start(), stop() or reload() is reported
\* once on the console and has exactly one widget_error event if analytics
\* is on and none if it is off; the analytics request failing changes
\* nothing of the call or the widget.
C26_ReportedOnce == [](C26_Once) /\ [][C26_SettleFrame]_vars

\* analytics on: a start() whose hook threw has ended, reported once, with
\* one widget_error event whose request has failed; the call has resolved
C26_Witness ==
    \E t \in Tasks :
        LET tk == tasks[t]
        IN  /\ tk.op = "start"
            /\ tk.pc = "done"
            /\ Opt(tk.inst).analytics
            /\ Failed(tk)
            /\ tk.auth = "returned"
            /\ tk.reported = 1
            /\ tk.events = <<"widget_error">>
            /\ tk.posts = <<"failed">>
            /\ tk.outcome = "resolved"

\* the calls of hook h recorded for the call
CallsOf(tk, h) ==
    {k \in 1..Len(tk.hooks) : tk.hooks[k][1] = "call" /\ tk.hooks[k][2] = h}

\* C27: within one start(), stop() or reload() call every hook is called
\* at most once, whether it returns or throws, and only the hooks of that
\* operation are called; a hook that threw ends the call.
C27_HooksAtMostOnce ==
    \A t \in Tasks :
        LET tk == tasks[t]
        IN  /\ \A h \in HookPcs : Cardinality(CallsOf(tk, h)) <= 1
            /\ \A h \in HookPcs :
                  CallsOf(tk, h) # {} =>
                      h \in (CASE tk.op = "start" -> {"onInit", "onRender"}
                               [] tk.op = "stop" -> {"onDestroy"}
                               [] tk.op = "reload" ->
                                    {"onConfigUpdate", "onDestroy", "onRender"}
                               [] OTHER -> {})
            /\ \A k \in 1..Len(tk.hooks) :
                  tk.hooks[k][1] = "throw" => (k = Len(tk.hooks) /\ tk.pc = "done")

\* a reload() has ended on onRender throwing, after one call of onDestroy
\* and one of onRender
C27_Witness ==
    \E t \in Tasks :
        LET tk == tasks[t]
        IN  /\ tk.op = "reload"
            /\ tk.pc = "done"
            /\ tk.res \in ServerResponses
            /\ tk.hooks = << <<"call", "onDestroy", NoArg>>,
                             <<"return", "onDestroy", NoArg>>,
                             <<"call", "onRender", tk.res.config>>,
                             <<"throw", "onRender", NoArg>> >>
            /\ tk.reported = 1

\* the step ends a reload() whose last hook returned
ReloadSucceeds(a, b) ==
    /\ a.pc \in {"onRender", "onConfigUpdate"}
    /\ b.pc = "done"
    /\ b.reported = 0

\* C28: a step of a reload() call changes the stored config only when it
\* is the step in which the last update hook returned, and then to the
\* config of the fresh result; every other step of the call (the call
\* itself, the attempts, an unauthorized result, authorization failing, a
\* hook being called or throwing) leaves the stored config as it was.
C28_ConfigOnSuccessOnly ==
    [][\A t \in Tasks :
          LET a == tasks[t]
              b == tasks'[t]
          IN  (a # b /\ b.op = "reload") =>
                  IF ReloadSucceeds(a, b)
                    THEN /\ b.res.authorized
                         /\ widgets'[b.inst].config = b.res.config
                    ELSE widgets'[b.inst].config = widgets[b.inst].config]_vars

\* a reload() whose fresh result was authorized and carried another config
\* has ended on its hook throwing, and the stored config is still the one
\* an earlier start() stored
C28_Witness ==
    \E t \in Tasks :
        LET tk == tasks[t]
        IN  /\ tk.op = "reload"
            /\ tk.pc = "done"
            /\ tk.reported = 1
            /\ tk.res \in ServerResponses
            /\ tk.res.authorized
            /\ tk.hooks # <<>>
            /\ tk.hooks[Len(tk.hooks)][1] = "throw"
            /\ widgets[tk.inst].config \in Configs
            /\ widgets[tk.inst].config # tk.res.config
            /\ widgets[tk.inst].authData = tk.res

\* nothing of authorize() or of the hooks has happened for the call
NothingYet(tk) ==
    /\ tk.auth = "none"
    /\ tk.cacheOps = <<>>
    /\ tk.reqs = 0
    /\ tk.hooks = <<>>
    /\ tk.events = <<>>
    /\ tk.reported = 0

\* a start() is suspended while the document is loading, having done
\* nothing
C29_NothingBeforeReady ==
    \A t \in Tasks :
        (tasks[t].op = "start" /\ readyState = "loading") =>
            (tasks[t].pc = "waitDOM" /\ NothingYet(tasks[t]))

\* a start() called when the document is not loading is not suspended, and
\* only the ready event ends a suspension
C29_NoWaitWhenReady ==
    \A t \in Tasks :
        /\ (~InFlight(tasks[t]) /\ InFlight(tasks'[t]) /\ tasks'[t].op = "start") =>
              tasks'[t].pc = (IF readyState = "loading" THEN "waitDOM" ELSE "domReady")
        /\ (tasks[t].pc = "waitDOM" /\ tasks'[t] # tasks[t]) =>
              (readyState = "loading" /\ readyState' # "loading"
                  /\ tasks'[t].pc = "domReady")

\* C29: while the document is loading a start() has read no cache entry,
\* issued no request and called no hook; a start() called on a document
\* that is not loading is not suspended; and, the ready event firing when
\* the document is loading, every start() comes to enter authorize().
C29_WaitsForReady ==
    /\ [](C29_NothingBeforeReady)
    /\ [][C29_NoWaitWhenReady]_vars
    /\ \A t \in Tasks :
          (tasks[t].op = "start" /\ tasks[t].pc \in {"waitDOM", "domReady"})
              ~> (tasks[t].op = "start" /\ tasks[t].auth # "none")

\* a start() is suspended on the ready event
C29_Witness ==
    \E t \in Tasks :
        /\ tasks[t].op = "start"
        /\ tasks[t].pc = "waitDOM"
        /\ readyState = "loading"
        /\ widgets[tasks[t].inst].options.cache
        /\ store[getCacheKey(widgets[tasks[t].inst])] # NoItem

\* caching on: the attempt that gets a 2xx body writes it under the
\* instance's key with the time of the write, whatever its authorized flag
C30_PersistedAlike ==
    \A t \in Tasks :
        LET i == tasks[t].inst
        IN  ( /\ tasks[t].pc = "fetch"
              /\ tasks'[t].pc = "authReturn"
              /\ tasks'[t].auth = "returned"
              /\ Opt(i).cache )
            => /\ store'[KeyOf(i)] = JSONstringify([data |-> tasks'[t].res,
                                                    timestamp |-> now])
               /\ tasks'[t].cacheOps = Append(tasks[t].cacheOps, "setItem")

\* caching on, no preview override: the authorize() of a start() entered
\* within cacheDuration of the instance's last network result, that result
\* being unauthorized and no reload() since, returns it without a request
C30_UnauthorizedHit ==
    \A t \in Tasks :
        LET tk == tasks[t]
        IN  ( /\ tk.op = "start"
              /\ tk.pc = "authReturn"
              /\ preview = Undefined
              /\ Opt(tk.inst).cache
              /\ tk.prev # Null
              /\ ~tk.prev.data.authorized
              /\ tk.t0 - tk.prev.time <= Opt(tk.inst).cacheDuration * MsPerSecond )
            => /\ tk.auth = "returned"
               /\ tk.res = tk.prev.data
               /\ tk.reqs = 0
               /\ tk.cacheOps = <<"getItem">>

\* C30: a 2xx response with authorized = false is written to the cache as
\* an authorized one is, and with caching enabled every later authorize()
\* within cacheDuration returns that unauthorized result with no request,
\* until reload() or expiry removes the entry.
C30_UnauthorizedCached ==
    /\ [](C30_UnauthorizedHit)
    /\ [][C30_PersistedAlike]_vars

\* a later start() has got the unauthorized result of an earlier request
\* from the cache
C30_Witness ==
    \E t \in Tasks :
        LET tk == tasks[t]
        IN  /\ tk.op = "start"
            /\ tk.pc = "authReturn"
            /\ Opt(tk.inst).cache
            /\ tk.prev # Null
            /\ ~tk.prev.data.authorized
            /\ tk.t0 > tk.prev.time
            /\ tk.reqs = 0
            /\ tk.res = tk.prev.data

\* authorize() throws only the error of a failed request
C31_OnlyNetworkErrors ==
    \A t \in Tasks :
        LET tk == tasks[t]
        IN  (tk.pc = "authReturn" /\ tk.auth = "threw") =>
                /\ tk.err.kind \in FailureKinds
                /\ tk.reqs = Opt(tk.inst).retryAttempts

\* the steps of authorize() and reload() in which a localStorage call
\* throws, or the entry does not parse
C31_StoreFailureStep ==
    \A t \in Tasks :
        LET a    == tasks[t]
            b    == tasks'[t]
            i    == b.inst
            item == store[KeyOf(i)]
        IN  /\ ( /\ a.pc = "domReady"
                 /\ b.pc # "domReady"
                 /\ Opt(i).cache
                 /\ "getItem" \in storage \/ item = Garbage )
               => (b.pc = "fetch" /\ b.reqs = 1 /\ b.cacheOps = <<"getItem">>
                      /\ store' = store)
            /\ ( /\ a.pc = "domReady"
                 /\ b.pc # "domReady"
                 /\ Opt(i).cache
                 /\ storage = {"removeItem"}
                 /\ item.kind = "json"
                 /\ IsExpired(now, item.timestamp, Opt(i).cacheDuration) )
               => (b.pc = "fetch" /\ b.reqs = 1
                      /\ b.cacheOps = <<"getItem", "removeItem">>
                      /\ store' = store)
            /\ ( /\ a.pc = "fetch"
                 /\ b.auth = "returned"
                 /\ Opt(i).cache
                 /\ "setItem" \in storage )
               => (b.pc = "authReturn" /\ b.res \in ServerResponses
                      /\ store' = store)
            /\ ( /\ ~InFlight(a)
                 /\ InFlight(b)
                 /\ b.op = "reload"
                 /\ "removeItem" \in storage )
               => (store' = store /\ b.auth \in {"running", "returned"}
                      /\ b.reported = 0)

\* C31: a localStorage call that throws never fails authorization.  A
\* read that throws, or an entry that does not parse, is a miss: the
\* request is issued and the entry stays.  A write that throws leaves the
\* network result returned.  A removal that throws is swallowed: the call
\* goes on and the entry stays.  authorize() throws only when its last
\* request failed.
C31_StoreFailuresSwallowed ==
    /\ [](C31_OnlyNetworkErrors)
    /\ [][C31_StoreFailureStep]_vars

\* with every localStorage method throwing, an authorize() has returned
\* the result of its request after the read and the write threw
C31_Witness ==
    \E t \in Tasks :
        LET tk == tasks[t]
        IN  /\ storage = StorageMethods
            /\ tk.op = "start"
            /\ tk.pc = "authReturn"
            /\ tk.auth = "returned"
            /\ tk.reqs >= 1
            /\ tk.cacheOps = <<"getItem", "setItem">>
            /\ tk.res \in ServerResponses
            /\ store[KeyOf(tk.inst)] = Garbage

\* a reload() that is in onRender has called onDestroy and onRender with
\* the fresh config and nothing else, whatever the running flag
C32_RendersAnyway ==
    \A t \in Tasks :
        LET tk == tasks[t]
        IN  (tk.op = "reload" /\ tk.pc = "onRender") =>
                /\ tk.res.authorized
                /\ ~widgets[tk.inst].hasConfigUpdate
                /\ tk.hooks = << <<"call", "onDestroy", NoArg>>,
                                 <<"return", "onDestroy", NoArg>>,
                                 <<"call", "onRender", tk.res.config>> >>

\* the reload() that got an authorized result goes on to its hooks whatever
\* the running flag, and no step of a reload() changes the flag
C32_NoStateCheck ==
    \A t \in Tasks :
        LET a == tasks[t]
            b == tasks'[t]
        IN  /\ (a # b /\ b.op = "reload") =>
                  widgets'[b.inst].isInitialized = widgets[b.inst].isInitialized
            /\ ( /\ a.op = "reload"
                 /\ a.pc = "authReturn"
                 /\ b # a
                 /\ a.auth = "returned"
                 /\ a.res.authorized )
               => b.pc = (IF widgets[a.inst].hasConfigUpdate
                            THEN "onConfigUpdate" ELSE "onDestroy")

\* C32: reload() does not look at the lifecycle state.  With an authorized
\* fresh result and no onConfigUpdate it calls onDestroy() and then
\* onRender(newConfig) whether or not the widget is running or was ever
\* started, and it leaves isInitialized as it was.
C32_ReloadIgnoresState ==
    /\ [](C32_RendersAnyway)
    /\ [][C32_NoStateCheck]_vars

\* a reload() is in onRender on a widget that is not running and whose
\* config is still the constructor's: no start() ever reached onInit
C32_Witness ==
    \E t \in Tasks :
        LET tk == tasks[t]
        IN  /\ tk.op = "reload"
            /\ tk.pc = "onRender"
            /\ ~widgets[tk.inst].isInitialized
            /\ widgets[tk.inst].config = EmptyConfig
            /\ widgets[tk.inst].authData = tk.res

\* a start() that is in onRender has called onInit and onRender itself,
\* whatever the other call has done (onRender gets this.config as it is
\* then, which the other call may have assigned), and no call has called
\* onDestroy
C33_OwnHooks ==
    \A t \in Tasks :
        LET tk == tasks[t]
        IN  /\ (tk.op = "start" /\ tk.pc = "onRender") =>
                  \E c \in Configs :
                      tk.hooks = << <<"set", "config", tk.res.config>>,
                                    <<"call", "onInit", tk.res.config>>,
                                    <<"return", "onInit", NoArg>>,
                                    <<"call", "onRender", c>> >>
            /\ CallsOf(tk, "onDestroy") = {}

\* a start() that finds no usable entry issues its own request, and one
\* that got an authorized result calls onInit, whatever the other call is
\* doing and whether or not the widget is running already
C33_OwnSteps ==
    \A t \in Tasks :
        LET a == tasks[t]
            b == tasks'[t]
            i == a.inst
        IN  /\ ( /\ a.op = "start"
                 /\ a.pc = "domReady"
                 /\ b # a
                 /\ ~Opt(i).cache \/ store[KeyOf(i)] = NoItem )
               => (b.pc = "fetch" /\ b.reqs = 1)
            /\ ( /\ a.op = "start"
                 /\ a.pc = "authReturn"
                 /\ b # a
                 /\ a.auth = "returned"
                 /\ a.res.authorized )
               => b.pc = "onInit"

\* C33: nothing guards against overlapping start() calls on one instance.
\* Each of two overlapping calls that gets an authorized result calls
\* onInit and onRender, so onRender is called twice with no onDestroy
\* between, and each call that finds no cache entry issues its own request.
C33_OverlappingStarts ==
    /\ [](C33_OwnHooks)
    /\ [][C33_OwnSteps]_vars

\* two start() calls on the instance are both in onRender, with results of
\* two different requests
C33_Witness ==
    /\ tasks["t1"].op = "start"
    /\ tasks["t2"].op = "start"
    /\ tasks["t1"].inst = tasks["t2"].inst
    /\ tasks["t1"].pc = "onRender"
    /\ tasks["t2"].pc = "onRender"
    /\ tasks["t1"].res.config # tasks["t2"].res.config

\* the step in which reload() is called leaves no entry under the
\* instance's key and touches no other key
C34_ClearedAtCall ==
    \A t \in Tasks :
        LET a == tasks[t]
            b == tasks'[t]
            i == b.inst
        IN  (~InFlight(a) /\ InFlight(b) /\ b.op = "reload") =>
                /\ store'[KeyOf(i)] = NoItem
                /\ \A k \in CacheKeys : k # KeyOf(i) => store'[k] = store[k]

\* the last call being a reload(): with a preview override, with caching
\* off, or as long as authorize() has returned no result (its requests
\* pending or failed), there is no entry under the instance's key
C34_LeftEmpty ==
    \A t \in Tasks :
        LET tk == tasks[t]
        IN  ( /\ tk.op = "reload"
              /\ \/ preview # Undefined
                 \/ ~Opt(tk.inst).cache
                 \/ tk.res = Null )
            => store[KeyOf(tk.inst)] = NoItem

\* C34: reload() removes the entry of its (websiteId, appId) pair before
\* it authorizes, whatever the cache option and the preview override; with
\* a preview override, with caching off, and when the authorization
\* fails, nothing writes it again, so the pair is left without an entry.
C34_ReloadClearsAlways ==
    /\ [](C34_LeftEmpty)
    /\ [][C34_ClearedAtCall]_vars

\* the authorization of a reload() has failed, and the entry that an
\* earlier start() had cached is gone
C34_Witness ==
    \E t \in Tasks :
        LET tk == tasks[t]
        IN  /\ tk.op = "reload"
            /\ tk.pc = "authReturn"
            /\ tk.auth = "threw"
            /\ tk.prev # Null
            /\ tk.prev.data.authorized
            /\ store[KeyOf(tk.inst)] = NoItem

\* the attempt of a fails in the step to b with a failure of the given kind
FailsWith(a, b, kind) ==
    /\ a.pc = "fetch"
    /\ b # a
    /\ b.auth # "returned"
    /\ kind = (IF b.pc = "sleep" THEN b.lastError.kind ELSE b.err.kind)

\* what a failed attempt does, whatever the failure: no write, then the
\* delay if attempts remain, else authorize() throws this failure
FailedAttemptStep(a, b, kind) ==
    /\ store' = store
    /\ b.cacheOps = a.cacheOps
    /\ b.reqs = a.reqs
    /\ IF a.attempt < Opt(a.inst).retryAttempts
         THEN /\ b.pc = "sleep"
              /\ b.wake = now + Opt(a.inst).retryDelay
              /\ b.sleeps = a.sleeps + 1
              /\ b.lastError = [kind |-> kind, attempt |-> a.attempt]
         ELSE /\ b.pc = "authReturn"
              /\ b.auth = "threw"
              /\ b.sleeps = a.sleeps
              /\ b.err = [kind |-> kind, attempt |-> a.attempt]

\* C35: an attempt whose 2xx body does not parse is a failed attempt like
\* one with a non-2xx status or a transport error: nothing is written to
\* the cache, the retry delay follows if attempts remain, and when the
\* delay is over the next attempt is issued.
C35_ParseFailureRetried ==
    [][\A t \in Tasks :
          LET a == tasks[t]
              b == tasks'[t]
          IN  /\ \A kind \in FailureKinds :
                    FailsWith(a, b, kind) => FailedAttemptStep(a, b, kind)
              /\ (a.pc = "sleep" /\ b # a) =>
                    /\ now >= a.wake
                    /\ b.pc = "fetch"
                    /\ b.attempt = a.attempt + 1
                    /\ b.reqs = a.reqs + 1
                    /\ b.lastError = a.lastError
                    /\ store' = store]_vars

\* the second attempt is in flight after the body of the first did not
\* parse and the delay was applied, and nothing was cached
C35_Witness ==
    \E t \in Tasks :
        LET tk == tasks[t]
        IN  /\ tk.pc = "fetch"
            /\ tk.attempt = 2
            /\ tk.reqs = 2
            /\ tk.sleeps = 1
            /\ tk.lastError = [kind |-> "parse", attempt |-> 1]
            /\ Opt(tk.inst).cache
            /\ tk.cacheOps = <<"getItem">>
            /\ store[KeyOf(tk.inst)] = NoItem

\* the call has assigned this.config (from its own result)
AssignedConfig(tk) ==
    \E k \in 1..Len(tk.hooks) :
        tk.hooks[k][1] = "set" /\ tk.hooks[k][2] = "config"

\* the call has ended on a hook throwing
HookThrew(tk) ==
    /\ tk.pc = "done"
    /\ tk.hooks # <<>>
    /\ tk.hooks[Len(tk.hooks)][1] = "throw"

\* authData is this call's result and config is not: the two fields come
\* from different authorization results
SplitFields(tk) ==
    /\ widgets[tk.inst].authData = tk.res
    /\ ~AssignedConfig(tk)

\* C36 as stated: after a reload() that got an unauthorized result or whose
\* hook threw, and after a start() whose onInit or onRender threw, authData
\* and config come from different authorization results.
C36_SplitAfterEveryFailure ==
    \A t \in Tasks :
        LET tk == tasks[t]
        IN  ( /\ tk.pc = "done"
              /\ tk.res # Null
              /\ \/ tk.op = "reload" /\ (~tk.res.authorized \/ HookThrew(tk))
                 \/ tk.op = "start" /\ HookThrew(tk) )
            => SplitFields(tk)

\* after each way a sequential start() or reload() ends once authorize()
\* returned: which result authData and config come from
C36_FieldsAtEnd ==
    \A t \in Tasks :
        LET tk == tasks[t]
            w  == widgets[tk.inst]
        IN  (tk.pc = "done" /\ tk.res # Null) =>
                /\ w.authData = tk.res
                /\ (tk.op = "reload" /\ (~tk.res.authorized \/ HookThrew(tk)))
                      => SplitFields(tk)
                /\ (tk.op = "start" /\ ~tk.res.authorized) => SplitFields(tk)
                /\ (tk.op = "start" /\ tk.res.authorized) =>
                      (AssignedConfig(tk) /\ w.config = w.authData.config)

\* the step in which start() or reload() resumes after authorize() returned
\* assigns authData, whatever the authorized flag; only an authorized
\* start() assigns config there
C36_AtReturn ==
    \A t \in Tasks :
        LET a == tasks[t]
            b == tasks'[t]
            i == a.inst
        IN  (a.pc = "authReturn" /\ b # a /\ a.auth = "returned") =>
                /\ widgets'[i].authData = a.res
                /\ widgets'[i].config =
                      (IF a.op = "start" /\ a.res.authorized
                         THEN a.res.config
                         ELSE widgets[i].config)
                /\ \A h \in HookPcs : CallsOf(a, h) = {}

\* C36 (amended): authData is replaced as soon as authorize() returns,
\* before the authorized check and before any hook is called.  After a
\* reload() that got an unauthorized result or whose hook threw, and after
\* a start() that got an unauthorized result, authData is the call's result
\* and config is an earlier one.  A start() with an authorized result
\* assigns config from that same result before it calls onInit, so after a
\* start() whose onInit or onRender threw the two fields agree.
C36_AuthDataFirst ==
    /\ [](C36_FieldsAtEnd)
    /\ [][C36_AtReturn]_vars

\* a running widget holds an unauthorized authData, and its config is not
\* the one of that authData
C36_Witness ==
    \E t \in Tasks :
        LET tk == tasks[t]
            w  == widgets[tk.inst]
        IN  /\ tk.op = "reload"
            /\ tk.pc = "done"
            /\ w.isInitialized
            /\ w.authData = tk.res
            /\ ~w.authData.authorized
            /\ w.config # w.authData.config

\* C37: a start() that ended on onInit or onRender throwing has not called
\* onDestroy, has left the config it assigned before onInit stored, and
\* leaves the widget not running (isInitialized false).
C37_FailedStartNotRunning ==
    \A t \in Tasks :
        LET tk == tasks[t]
            w  == widgets[tk.inst]
        IN  (tk.op = "start" /\ HookThrew(tk)) =>
                /\ CallsOf(tk, "onDestroy") = {}
                /\ AssignedConfig(tk)
                /\ w.config = tk.res.config
                /\ ~w.isInitialized

\* the step ends a start() that got an authorized result and whose onInit
\* and onRender both returned
StartCompletes(a, b) ==
    /\ a.op = "start"
    /\ a.pc = "onRender"
    /\ b.pc = "done"
    /\ b.reported = 0
    /\ a.res.authorized
    /\ \E k \in 1..Len(b.hooks) : b.hooks[k] = <<"return", "onInit", NoArg>>
    /\ \E k \in 1..Len(b.hooks) : b.hooks[k] = <<"return", "onRender", NoArg>>

\* the step ends a stop() whose onDestroy returned
StopCompletes(a, b) ==
    /\ a.op = "stop"
    /\ a.pc = "onDestroy"
    /\ b.pc = "done"
    /\ b.reported = 0

\* the flag is false until a call has been made
C38_InitiallyFalse ==
    \A i \in Insts :
        (widgets[i].exists /\ \A t \in Tasks : tasks[t].op = "none") =>
            ~widgets[i].isInitialized

\* the flag becomes true only in the step that completes a start(), it is
\* false after every step that completes a stop(), and no step of a
\* reload() changes it
C38_FlagSteps ==
    \A i \in Insts :
        /\ (widgets[i].exists /\ ~widgets[i].isInitialized
                /\ widgets'[i].isInitialized) =>
              \E t \in Tasks :
                  tasks[t].inst = i /\ StartCompletes(tasks[t], tasks'[t])
        /\ \A t \in Tasks :
              (tasks[t].inst = i /\ StopCompletes(tasks[t], tasks'[t])) =>
                  ~widgets'[i].isInitialized
        /\ \A t \in Tasks :
              (tasks'[t] # tasks[t] /\ tasks'[t].inst = i
                  /\ tasks'[t].op = "reload") =>
                  widgets'[i].isInitialized = widgets[i].isInitialized

\* C38: with each call awaited before the next, isInitialized is true only
\* if an earlier start() got an authorized result and completed onInit and
\* onRender without a throw, and no stop() whose onDestroy returned has
\* ended since; reload() never changes the flag.
C38_RunningOnlyAfterStart ==
    /\ [](C38_InitiallyFalse)
    /\ [][C38_FlagSteps]_vars

\* the widget is still marked running after a stop() whose onDestroy threw:
\* no stop() has completed since the start() that set the flag
C38_Witness ==
    \E t \in Tasks :
        LET tk == tasks[t]
        IN  /\ tk.op = "stop"
            /\ HookThrew(tk)
            /\ tk.reported = 1
            /\ widgets[tk.inst].isInitialized
            /\ widgets[tk.inst].authData # Null
            /\ widgets[tk.inst].authData.authorized

====
